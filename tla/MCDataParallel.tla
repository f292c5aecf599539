--------------------------- MODULE MCDataParallel ---------------------------
(***************************************************************************)
(* Data-parallel waves on two engines: the sets of requests the front end  *)
(* may abort and of modes it may pause with.                               *)
(***************************************************************************)
EXTENDS DataParallel

NoRequests == {}
FirstRequest == {1}

NoPause == {}
DefaultMode == {"abort"}
WaitOrKeep == {"wait", "keep"}
=============================================================================
