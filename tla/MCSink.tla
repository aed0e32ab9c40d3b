------------------------------- MODULE MCSink -------------------------------
(***************************************************************************)
(* Procedures for opt_jump and opt_sink: loops whose head branches, values *)
(* that live around back edges, values that one branch needs.              *)
(***************************************************************************)
EXTENDS Sink, MCDce

Load(v, dst) == Call("li", << >>, <<v>>, 0, dst)

(* X; while(v) { Y; if(w) return Z; }                                      *)
ReturnInside(x, y, z) ==
    Start \o x \o <<New, New, New, Goto(2), At(2), IfZero(1, 3, 4), At(4)>> \o y
          \o <<New, New, IfZero(2, 5, 6), At(5)>> \o z \o <<Return(1), At(6), Goto(2),
          At(3), Return(2)>>

(* do X while(v); Y; if(w) Z                                               *)
DoWhile(x, y, z) ==
    Start \o <<New, New, New, New, Goto(2), At(2)>> \o x \o <<IfZero(1, 3, 2), At(3)>>
      \o y \o <<IfZero(2, 4, 5), At(4)>> \o z \o <<Goto(5), At(5), Return(2)>>

(* X; if(v) Y else Z                                                       *)
Branch(x, y, z) ==
    Start \o x \o <<New, New, New, IfZero(1, 2, 3), At(2)>> \o y \o <<Goto(4), At(3)>>
          \o z \o <<Goto(4), At(4), Return(2)>>

LoopShapes(x, y, z) ==
    { Branch(x, y, z), While(x, y, z), Nested(x, y, z), ReturnInside(x, y, z),
      DoWhile(x, y, z) }

(* The same on several ways, and again where they meet.                    *)
Twice(x, y, z) == Diamond(x, y, z \o <<Add(2, 3, 2)>>)

TwiceScripts ==
    { <<Const(5, 2), w>> \o Twice(x, y, z) :
        w \in { Const(5, 3), Add(1, 1, 3) },
        x \in { << >>, <<Add(1, 2, 3)>>, <<Add(1, 2, 2), Add(1, 2, 3)>> },
        y \in { <<Add(1, 2, 3)>>, <<Add(1, 1, 2)>>, <<Add(1, 1, 2), Add(1, 2, 3)>> },
        z \in { << >>, <<Add(1, 2, 2)>>, <<Add(1, 2, 3), Add(1, 2, 2)>> } }

(* In a do-while loop this is another matter: see LoadHoistScripts.        *)
LoadFirst == <<Load(1, 2), Div(2, 1, 2)>>

LoopScripts ==
    UNION { IF x = LoadFirst THEN LoopShapes(x, y, z) \ {DoWhile(x, y, z)}
            ELSE LoopShapes(x, y, z) :
        x \in { << >>, <<Copy>>, LoadFirst },
        y \in { << >>, <<Add(1, 2, 1)>>, <<Swap>>, <<Const(1, 2)>> },
        z \in { << >>, <<Add(2, 1, 2), Store(1, 2)>> } }

OptScripts == LoopScripts \cup TwiceScripts
-----------------------------------------------------------------------------
(* Procedures for the runs that disagree with the README.                  *)

(* x = [v]; [v] = v; return v ? x : v                                      *)
LoadSinkScripts ==
    { Start \o <<Load(1, 2), Store(1, 1), New, New, IfZero(1, 2, 3), At(2), Return(1),
                 At(3), Return(2)>> }

(* do w = [v] while(v); return w                                           *)
LoadHoistScripts == { DoWhile(<<Load(1, 2)>>, << >>, << >>) }

(* x = v + w; while(v) v = v + (w + x)                                     *)
EdgeHoistScripts ==
    { While(<<Add(1, 2, 3), Const(0, 4)>>, <<Add(2, 3, 4), Add(1, 4, 1)>>, << >>) }

(* if(v) x = v + w else { x = v + w; v = v + v } return (v + w) + x + v    *)
PhiSlotScripts ==
    { <<Const(5, 2), Const(5, 3)>> \o
      Diamond(<<Add(1, 2, 3)>>, <<Add(1, 2, 3), Add(1, 1, 1)>>,
              <<Add(1, 2, 2), Add(2, 3, 2), Add(2, 1, 2)>>) }

(* while(v) { if(w) break; w = v + w }                                     *)
LoopBreakScripts == { Break(<< >>, << >>, <<Add(1, 2, 2)>>) }
=============================================================================
