---------------------------- MODULE MCLifecycle ----------------------------
EXTENDS Lifecycle

CONSTANTS home, work, photos, link

MCTargets == {[local |-> home, spec |-> photos], [local |-> work, spec |-> link]}
Script(commands, s, w, a, f, n) ==
    [commands |-> commands, state |-> s, what |-> w, acts |-> a, faults |-> f, changes |-> n]
MCScripts ==
    {Script(<<"start", "stop", "start">>, "synced", "off", 0, 1, 0),
     Script(<<"start", "status", "stop">>, "synced", "off", 0, 1, 0),
     Script(<<"start", "pause", "stop">>, "synced", "off", 0, 0, 0),
     Script(<<"start", "pause", "resume">>, "synced", "off", 1, 0, 0),
     Script(<<"link", "map", "start", "start">>, "new", "off", 0, 1, 0),
     Script(<<"start", "map", "start">>, "synced", "off", 1, 0, 0),
     Script(<<"start", "unlink", "start">>, "synced", "off", 0, 1, 0),
     Script(<<"unlink", "link", "map", "start">>, "synced", "off", 0, 0, 0),
     Script(<<"unlink", "start">>, "mapped", "off", 0, 0, 0),
     Script(<<"start">>, "synced", "file", 1, 0, 1),
     Script(<<"start">>, "synced", "root", 0, 1, 1)}
MCRemap == {Script(<<"map", "start">>, "synced", "off", 0, 0, 0)}
=============================================================================
