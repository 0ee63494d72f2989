---------------------------- MODULE MCTransfers ----------------------------
EXTENDS Transfers

CONSTANTS one, two

MCSetups == {<<"rclone", "trash", FALSE, two>>, <<"http", "permanent", TRUE, one>>}
MCNames == {one, two}
=============================================================================
