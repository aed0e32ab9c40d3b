----------------------------- MODULE MCRegAlloc -----------------------------
(***************************************************************************)
(* Procedures for the register allocator: three variables, as many as the  *)
(* machine of RegAlloc.cfg has general registers, which are turned around, *)
(* swapped or duplicated where the flow of control meets, with operations  *)
(* that need or destroy certain registers in between.                      *)
(***************************************************************************)
EXTENDS Emit, MCDce

Load(v, dst) == Call("li", << >>, <<v>>, 0, dst)
Zero == <<Const(0, 3)>>
Swap13 == <<Assign(<<3, 2, 1>>)>>
Sum == <<Add(2, 3, 2)>>

(* X; while(v) { Y } Z                                                     *)
Loop(x, y, z) == While(Zero \o x, y, z \o Sum)

(* X; if(v) Y else Z                                                       *)
If(x, y, z) ==
    Start \o Zero \o x \o <<New, New, New, IfZero(1, 2, 3), At(2)>> \o y
          \o <<Goto(4), At(3)>> \o z \o <<Goto(4), At(4), Add(1, 2, 2)>> \o Sum
          \o <<Return(2)>>

(* do { X; if(v) break; Y } while(w); Z                                    *)
Do(x, y, z) ==
    Start \o Zero \o <<New, New, New, New, Goto(2), At(2)>> \o x \o <<IfZero(1, 3, 4), At(4)>>
          \o y \o <<IfZero(3, 3, 2), At(3)>> \o z \o Sum \o <<Return(2)>>

(* while(v) { while(w) X; Y } Z, with w zero at first                      *)
Nest(x, y, z) ==
    Start \o Zero \o <<New, New, New, Goto(2), At(2), IfZero(1, 3, 4), At(4), New, New, New,
      Goto(5), At(5), IfZero(3, 6, 7), At(7)>> \o x \o <<Goto(5), At(6)>> \o y
      \o <<Goto(2), At(3)>> \o z \o Sum \o <<Return(2)>>

Turns == { Assign(<<2, 3, 1>>), Assign(<<3, 1, 2>>), Assign(<<2, 1, 3>>), Assign(<<3, 1, 1>>) }

Works == { << >>, <<Add(1, 2, 2)>>, <<Div(2, 1, 2)>>, <<Load(2, 2), Store(2, 1)>>,
           <<CallNear(2)>>, <<CallNear(3), Add(2, 3, 3)>> }

AllocScripts ==
    UNION { { Loop(x, y \o <<t>>, z), Do(<<t>>, y, z), Do(y, <<t>>, z), If(x, y \o <<t>>, x),
              If(x, y, <<Store(1, 2), Assign(<<2, 1, 3>>)>>),
              Nest(y, <<t>>, z), Nest(<<t>>, y \o Swap13, << >>) } :
        x \in { << >>, <<Load(1, 3)>> }, y \in Works, t \in Turns,
        z \in { << >>, <<CallNear(1), Add(1, 2, 2)>> } }

-----------------------------------------------------------------------------
(* Procedures for the runs that disagree with the README.                  *)

(* if(v) { w = call } else { u = call; v = u + w }, then all of them       *)
PhisScripts ==
    { If(<< >>, <<CallNear(2), Assign(<<2, 1, 3>>)>>, <<CallNear(1), Add(1, 2, 2)>>) }

(* if(v) v = w                                                             *)
IfScripts ==
    { Start \o <<New, New, IfZero(1, 3, 2), At(2), Assign(<<2, 2>>), Goto(3), At(3), Return(1)>> }

(* u = [v]; t = 9; [v] = t; return t + u + v                               *)
LoadScripts ==
    { Start \o <<Load(1, 3), Add(2, 2, 4), Add(2, 4, 5), Add(4, 5, 4), Store(1, 4),
                 Add(4, 3, 3), Add(3, 1, 3), Return(3)>> }
=============================================================================
