--------------------------------- MODULE MCFs --------------------------------
(***************************************************************************)
(* Inputs of the Fs runs.  Names are character sequences; A, B and C are   *)
(* not prefixes of one another, AB has A as a prefix.                      *)
(***************************************************************************)
EXTENDS Fs

CONSTANTS t1, t2

A  == <<"a">>
B  == <<"b">>
C  == <<"c">>
AB == <<"a", "b">>

NoNames      == {}
FileNames    == {A}
FileNamesAC  == {A, C}
DirNamesB    == {B, DotDot}
LinkNamesC   == {C}
UnlinkNamesABC == {A, B, C}
UnlinkNamesDot == {Dot}
UnlinkNamesA == {A}
UnlinkNamesDotA == {Dot, A}
PrefixNames  == {AB}

CreateRdwr   == {MODE_RDWR | MODE_CREAT}
OpenModes    == {MODE_RDWR | MODE_CREAT, MODE_WRONLY | MODE_CREAT, MODE_RDONLY}
CreateWronly == {MODE_WRONLY | MODE_CREAT}

NoSeeks      == {}
Rewind       == {<<0, "SET">>}
SeekPastEnd  == {<<0, "SET">>, <<1, "END">>}
SeekForward  == {<<1, "CUR">>}
=============================================================================
