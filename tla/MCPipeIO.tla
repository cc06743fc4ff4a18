------------------------------ MODULE MCPipeIO ------------------------------
(***************************************************************************)
(* Instances of PipeIO for TLC.                                            *)
(***************************************************************************)
EXTENDS PipeIO

BootTwo == {1, 2}
ReadWrite == {{"R", "W"}}
ShortTexts == {<< >>, <<0, 1>>}
ShortLens == {0, 1, 2}
TwoBytes == {0, 1}
EveryCall == AllCalls
PlainCalls == {"read", "write", "close", "exit"}
=============================================================================
