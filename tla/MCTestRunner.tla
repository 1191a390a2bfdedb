---------------------------- MODULE MCTestRunner ----------------------------
(***************************************************************************)
(* A small instance of the test executable: three tests with a name each.  *)
(***************************************************************************)
EXTENDS DebugTest

MCNames == <<"String.Writer", "Parser.Class", "Parser.Let">>

=============================================================================
