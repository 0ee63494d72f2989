--------------------------- MODULE MCDispatcher ---------------------------
(* Up to MaxOps operations; the first one uploads a new file.              *)
EXTENDS Dispatcher

MCFirstUploads == {1}
=============================================================================
