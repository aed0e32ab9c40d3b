-------------------------------- MODULE MCDce --------------------------------
(***************************************************************************)
(* Procedures for the model checker: control flow shapes with the places   *)
(* where a front-end would put the code of a statement filled in every way *)
(* from a few fragments.  Slot 1 is the argument, slot 2 a variable.       *)
(***************************************************************************)
EXTENDS Dce

New == Call("newLabel", << >>, << >>, 0, 0)
At(b) == Call("emitLabel", <<b>>, << >>, 0, 0)
Goto(b) == Call("jmp", <<b>>, << >>, 0, 0)
IfZero(v, b, d) == Call("jz", <<b, d>>, <<v>>, 0, 0)
Return(v) == Call("iret", << >>, <<v>>, 0, 0)
Const(n, dst) == Call("lci", << >>, << >>, n, dst)
Add(v, w, dst) == Call("iadd", << >>, <<v, w>>, 0, dst)
Div(v, w, dst) == Call("idiv", << >>, <<v, w>>, 0, dst)
Store(v, w) == Call("si", << >>, <<v, w>>, 0, 0)
CallNear(dst) == Call("icalln", << >>, << >>, 1, dst)
TailCall == Call("tcalln", << >>, << >>, 1, 0)
Assign(slots) == Call("assign", << >>, slots, 0, 0)

Start == <<Const(3, 2)>>

(* if(v) X else Y; Z                                                       *)
Diamond(x, y, z) ==
    Start \o <<New, New, New, IfZero(1, 2, 3), At(2)>> \o x \o <<Goto(4), At(3)>>
          \o y \o <<Goto(4), At(4)>> \o z \o <<Return(2)>>

(* if(v) X else Y; Z; a label; return                                      *)
Join(x, y, z) ==
    Start \o <<New, New, New, New, IfZero(1, 2, 3), At(2)>> \o x \o <<Goto(4), At(3)>>
          \o y \o <<Goto(4), At(4)>> \o z \o <<Goto(5), At(5), Return(2)>>

(* if(v) { if(w) X else Y } else Z                                         *)
Inner(x, y, z) ==
    Start \o <<New, New, New, IfZero(1, 2, 3), At(2), New, New, New, IfZero(2, 5, 6),
      At(5)>> \o x \o <<Goto(7), At(6)>> \o y \o <<Goto(7), At(7), Goto(4), At(3)>>
      \o z \o <<Goto(4), At(4), Return(2)>>

(* X; while(v) { Y } Z                                                     *)
While(x, y, z) ==
    Start \o x \o <<New, New, New, Goto(2), At(2), IfZero(1, 3, 4), At(4)>> \o y
          \o <<Goto(2), At(3)>> \o z \o <<Return(2)>>

(* if(v) X else if(w) Y else Z                                             *)
Switch(x, y, z) ==
    Start \o <<New, New, New, IfZero(1, 2, 3), At(2)>> \o x \o <<Goto(4), At(3),
      New, New, IfZero(2, 5, 6), At(5)>> \o y \o <<Goto(4), At(6)>> \o z
      \o <<Goto(4), At(4), Return(2)>>

(* if(v) { X return; Z } Y, a tail call, a return                          *)
Early(x, y, z) ==
    Start \o <<New, New, IfZero(1, 2, 3), At(2)>> \o x \o <<Return(2)>> \o z
      \o <<Goto(3), At(3)>> \o y \o <<TailCall, Return(1)>>

(* for(;;) { X; if(v) break; Y; if(w) break; Z }                           *)
Break(x, y, z) ==
    Start \o <<New, New, New, New, Goto(2), At(2)>> \o x \o <<IfZero(1, 3, 4), At(4)>>
      \o y \o <<IfZero(2, 3, 5), At(5)>> \o z \o <<Goto(2), At(3), Return(2)>>

(* while(v) { X; while(w) { Y } Z }                                        *)
Nested(x, y, z) ==
    Start \o <<New, New, New, Goto(2), At(2), IfZero(1, 3, 4), At(4)>> \o x
      \o <<New, New, New, Goto(5), At(5), IfZero(2, 6, 7), At(7)>> \o y
      \o <<Goto(5), At(6)>> \o z \o <<Goto(2), At(3), Return(2)>>

Shapes(x, y, z) ==
    { Diamond(x, y, z), Join(x, y, z), Inner(x, y, z), While(x, y, z), Switch(x, y, z),
      Early(x, y, z), Break(x, y, z), Nested(x, y, z) }

Copy == Assign(<<1, 1>>)
Swap == Assign(<<2, 1>>)

MCScripts ==
    UNION { Shapes(x, y, z) :
        x \in { << >>, <<Copy>>, <<Swap>>, <<Const(2, 2)>> },
        y \in { << >>, <<Copy>>, <<Add(1, 2, 1)>>, <<Add(1, 2, 2)>> },
        z \in { << >>, <<Div(2, 1, 2)>>, <<Store(1, 2), CallNear(1), Add(2, 2, 2)>> } }

-----------------------------------------------------------------------------
(* Procedures for the runs that disagree with a comment or the README.     *)

(* The code of a block that only merges is dead, and is removed in the     *)
(* round in which the phi of the next block is replaced by the one here.   *)
DeadMergeScripts == { Join(<<Const(1, 2)>>, << >>, <<Add(1, 2, 1)>>) }

(* if(v) for(;;);                                                          *)
SelfLoopScripts ==
    { <<New, New, IfZero(1, 2, 3), At(2), Goto(2), At(3), Return(1)>> }
=============================================================================
