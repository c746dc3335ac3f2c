---------------------------- MODULE MCFileHandler ----------------------------
(***************************************************************************)
(* Small values for FileHandler: timeouts of zero and more, waits shorter  *)
(* and longer than the timeout, and a device that takes no deadline or has *)
(* one that is past, or comes, while bytes do.                             *)
(***************************************************************************)
EXTENDS FileHandler

MaybeDeadline == {None, 0, 3}
=============================================================================
