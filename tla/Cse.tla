-------------------------------- MODULE Cse --------------------------------
(***************************************************************************)
(* Common subexpressions: Proc::opt_cse (src/src/opt-cse.cpp), and the loop*)
(* of opt() (src/src/bjit.h) that repeats it as long as it or opt_jump has *)
(* changed something.                                                      *)
(*                                                                         *)
(* Operations are hoisted as far up the dominators as they are sure to be  *)
(* needed; then what computes the same is a pair, by the table of module   *)
(* HashTable, here the map that ItemMap promises.  A value that is known   *)
(* on some edges into a block becomes a phi, pairs become one operation at *)
(* their closest common dominator, and all uses are renamed at the end.    *)
(* Loads have a memory tag (module MemTags tells how tags are found), which*)
(* lies over the immediate of an operation.                                *)
(*                                                                         *)
(* The pass knows operations by their position, which is true after dead   *)
(* code elimination and from then on what it is set to.  A failed          *)
(* assertion throws; a read outside of the array of operations, or of the  *)
(* list of live blocks after that has grown, may do anything.              *)
(***************************************************************************)
EXTENDS LoopOpt

VARIABLES cse,          \* what the pass keeps, see NoCse
          repeat        \* must there be another round of opt()?

cseVars == <<loopVars, cse, repeat>>

(* A record: memtag, memout and comeFrom of the blocks, Op::pos, the table *)
(* with the operation for each key, the pairs, the values to rename, the   *)
(* operations checkPre is still called for, the number of blocks to hoist  *)
(* from, whether edges were broken, whether dead code is left, the progress*)
(* of this round and of any, and how the pass ends if not well.            *)
NoCse ==
    [memtag |-> << >>, memout |-> << >>, comeFrom |-> << >>, pos |-> << >>,
     table |-> << >>, pairs |-> << >>, renames |-> << >>, pre |-> {}, upTo |-> 0,
     needDom |-> FALSE, needDCE |-> FALSE, progress |-> FALSE, anyProgress |-> FALSE,
     fails |-> "no"]

CseInit ==
    /\ LoopInit
    /\ stage = "cse" /\ cse = NoCse /\ repeat = FALSE

(* The procedure and what the pass keeps, as one record.                   *)
All == Proc @@ cse

Continues(w) ==
    /\ Becomes(w)
    /\ cse' = [f \in DOMAIN cse |-> w[f]]

NoPos == 65535

-----------------------------------------------------------------------------
(* rebuild_cfg and rebuild_dom.                                            *)

ComeFrom(s, b) == SelectSeq(Reverse(s.live), LAMBDA x : b \in Targets(s.ops, s.blocks, x))

CleanedAlts(s, b) ==
    SelectSeq(s.blocks[b].alts, LAMBDA a : /\ s.ops[a.val].opcode # "nop"
                                           /\ a.src \in ToSet(ComeFrom(s, b)))

Rebuilt(w) ==
    LET s == RebuildDom(RebuildCfg(w))
        isLive(b) == b \in ToSet(s.live)
    IN  [s EXCEPT
          !.comeFrom = [b \in DOMAIN s.blocks |-> ComeFrom(s, b)],
          !.blocks = [b \in DOMAIN @ |-> [@[b] EXCEPT
                        !.live = isLive(b),
                        !.alts = IF isLive(b) THEN CleanedAlts(s, b) ELSE @]]]

(* Block::dom, as a set.                                                   *)
DomsOf(w, b) == Chain(w, b) \cup {1}

(* rebuild_memtags: the tag of a load is the last operation before it that *)
(* changes memory, or noVal for the tag of the block.  Rounds after the    *)
(* last that changes a tag do nothing.                                     *)
LastEffect(w, code) ==
    LET es == SelectSeq(code, LAMBDA i :
                /\ w.ops[i].opcode \notin Jumps
                /\ hasSideFX(w.ops[i].opcode)
                /\ ~level \/ ~canCSE(w.ops[i].opcode))
    IN  IF es = << >> THEN noVal ELSE Last(es)

LoadTag(w, i) ==
    LET code == w.blocks[w.ops[i].block].code
        c == CHOOSE n \in DOMAIN code : code[n] = i
    IN  LastEffect(w, SubSeq(code, 1, c - 1))

TagBlock(r, b, w) ==
    LET tags == { r.memout[f] : f \in ToSet(w.comeFrom[b]) } \ {noVal}
        tag == IF tags = {} THEN noVal
               ELSE IF Cardinality(tags) = 1 THEN CHOOSE t \in tags : TRUE
               ELSE Terminator(w, b)
    IN  [memtag |-> [r.memtag EXCEPT ![b] = tag],
         memout |-> [r.memout EXCEPT ![b] = IF r.memtag[b] = @ THEN tag ELSE @]]

rebuild_memtags(w) ==
    LET start == [memtag |-> [b \in DOMAIN w.blocks |-> noVal],
                  memout |-> [b \in DOMAIN w.blocks |->
                                IF b \in ToSet(w.live) THEN LastEffect(w, w.blocks[b].code)
                                ELSE noVal]]
        round[n \in 0..(2 * Len(w.live))] ==
            IF n = 0 THEN start
            ELSE FoldLeft(LAMBDA r, b : TagBlock(r, b, w), round[n - 1], w.live)
        solved == round[2 * Len(w.live)]
        loads == { i \in DOMAIN w.ops :
                     /\ w.ops[i].opcode = "li"
                     /\ w.ops[i].block \in ToSet(w.live)
                     /\ i \in ToSet(w.blocks[w.ops[i].block].code) }
    IN  [w EXCEPT !.memtag = solved.memtag, !.memout = solved.memout,
                  !.ops = [i \in DOMAIN @ |->
                             IF i \in loads THEN [@[i] EXCEPT !.imm = LoadTag(w, i)]
                             ELSE @[i]]]

-----------------------------------------------------------------------------
(* Moving an operation to another block.                                   *)

Fail(w, how) == [w EXCEPT !.fails = IF @ = "no" THEN how ELSE @]

(* Where a pass that has failed ends.                                      *)
End(w) == IF w.fails = "asserted" THEN "asserted" ELSE "faulted"

Asserted(w, holds) == IF holds THEN w ELSE Fail(w, "asserted")

(* Going backwards through block m, operation v goes past jumps, but not   *)
(* past what has to stay in front of it.                                   *)
StopsAt(w, v, i) ==
    \/ i # noVal /\ w.ops[i].opcode \notin Jumps /\ ~canMove(w.ops[i].opcode)
    \/ i # noVal /\ w.ops[v].opcode = "li" /\ hasSideFX(w.ops[i].opcode)
    \/ i \in ToSet(w.ops[v].in)

(* What it goes past moves by one, and must be where its position says.  An*)
(* empty place has no position to look at: ops[noVal] is outside the array.*)
MoveTo(w, v, m) ==
    LET code == w.blocks[m].code
        n == Len(code)
        stops == { k \in 1..n : StopsAt(w, v, code[k]) }
        first == IF stops = {} THEN 1 ELSE 1 + (CHOOSE k \in stops : \A j \in stops : j <= k)
        wrong == { k \in first..n : code[k] = noVal \/ w.pos[code[k]] # k }
        met == CHOOSE k \in wrong : \A j \in wrong : j <= k
        moved == [w EXCEPT
            !.ops[v].block = m,
            !.blocks[m].code = SubSeq(code, 1, first - 1) \o <<v>> \o SubSeq(code, first, n),
            !.pos = [i \in DOMAIN @ |->
                       IF i = v /\ first <= n THEN first
                       ELSE IF i \in ToSet(SubSeq(code, first, n))
                       THEN 1 + (CHOOSE k \in first..n : code[k] = i) ELSE @[i]]]
    IN  IF wrong = {} THEN moved
        ELSE Fail(moved, IF code[met] = noVal THEN "faulted" ELSE "asserted")

-----------------------------------------------------------------------------
(* Hoisting.                                                               *)

(* breakEdge, with what only this pass needs of a block.                   *)
BreakEdge(w, from, to) ==
    LET e == Len(w.blocks) + 1
    IN  [breakEdge(w, from, to) EXCEPT
          !.memtag = Append(@, w.memout[from]),
          !.memout = Append(@, w.memout[from]),
          !.pos = Append(@, NoPos),
          !.comeFrom = Append([@ EXCEPT ![to] = [n \in DOMAIN @ |->
                                 IF @[n] = from THEN e ELSE @[n]]], <<from>>),
          !.needDom = TRUE]

InputIn(w, v, m) == \E i \in ToSet(w.ops[v].in) : w.ops[i].block = m

(* A load may go where memory has not changed since.                       *)
OtherMemory(w, v, d) == w.ops[v].opcode = "li" /\ w.memout[d] # w.ops[v].imm

(* One step up the immediate dominators of block u.m.  From a block that   *)
(* the dominator only may go to, an operation with inputs goes no further  *)
(* than the edge between them, and only if there are other edges.          *)
ClimbStep(u, v) ==
    LET w == u.w
        m == u.m
        d == w.idom[m]
        e == Len(w.blocks) + 1
        branches == w.ops[v].in # << >> /\ w.pdom[d] # m
        isJcc == w.ops[Terminator(w, d)].opcode \in CondJumps
    IN  IF u.done THEN u
        ELSE IF m = 1 \/ InputIn(w, v, m) \/ OtherMemory(w, v, d)
                \/ (branches /\ Len(w.comeFrom[m]) <= 1)
        THEN [u EXCEPT !.done = TRUE]
        ELSE IF ~branches THEN [u EXCEPT !.m = d]
        ELSE IF isJcc THEN [w |-> BreakEdge(w, d, m), m |-> e, done |-> TRUE]
        ELSE [u EXCEPT !.w = Fail(w, "asserted"), !.done = TRUE]

Climb(w, v, b) ==
    LET up[n \in 0..Len(w.blocks)] ==
            IF n = 0 THEN [w |-> w, m |-> b, done |-> w.ops[v].noOpt]
            ELSE ClimbStep(up[n - 1], v)
    IN  up[Len(w.blocks)]

(* OpCSE: what two operations that compute the same have in common.        *)
Key(o) == <<o.opcode, o.in, o.imm>>

Candidate(w, v) ==
    v # noVal /\ canCSE(w.ops[v].opcode) /\ (level \/ ~hasSideFX(w.ops[v].opcode))

(* The operation goes to the table, or is a pair with the one there.       *)
Collect(w, v) ==
    LET key == Key(w.ops[v])
    IN  IF key \in DOMAIN w.table
        THEN [w EXCEPT !.pairs = Append(@, <<w.table[key].index, v>>)]
        ELSE [w EXCEPT !.table = @ @@ (key :> [index |-> v, block |-> w.ops[v].block])]

HoistOp(w, b, c) ==
    LET v == w.blocks[b].code[c]
        o == w.ops[v]
        tagged == IF o.opcode = "li" /\ o.imm = noVal
                  THEN [w EXCEPT !.ops[v].imm = w.memtag[b]] ELSE w
        u == Climb(tagged, v, b)
    IN  IF w.fails # "no" \/ ~Candidate(w, v) THEN w
        ELSE IF u.m = b THEN Collect(u.w, v)
        ELSE Collect(MoveTo([u.w EXCEPT !.blocks[b].code[c] = noVal,
                                        !.needDCE = TRUE], v, u.m), v)

HoistBlock(w, b) ==
    FoldLeft(LAMBDA x, c : HoistOp(x, b, c), w, [c \in 1..Len(w.blocks[b].code) |-> c])

-----------------------------------------------------------------------------
(* Partial redundancies: an operation on a phi of its block may have been  *)
(* computed already on some of the edges.                                  *)

OnPhi(w, v) ==
    \E i \in ToSet(w.ops[v].in) :
        w.ops[i].opcode = "phi" /\ w.ops[i].block = w.ops[v].block

(* The operation as it would be at the end of block f: alternatives are    *)
(* put for phis one after the other.                                       *)
AtEdge(w, v, f) ==
    LET o == w.ops[v]
        alts == SelectSeq(w.blocks[o.block].alts, LAMBDA a : a.src = f)
    IN  FoldLeft(LAMBDA x, a : [x EXCEPT !.in = [k \in DOMAIN @ |->
                                   IF @[k] = a.phi THEN a.val ELSE @[k]]], o, alts)

(* One in the table, or one that is a pair with it, that dominates f.      *)
KnownAt(w, o, f) ==
    LET e == w.table[Key(o)]
        alts == SelectSeq(w.pairs, LAMBDA p : p[1] = e.index
                                              /\ w.ops[p[2]].block \in DomsOf(w, f))
    IN  IF Key(o) \notin DOMAIN w.table THEN noVal
        ELSE IF e.block \in DomsOf(w, f) THEN e.index
        ELSE IF alts # << >> THEN alts[1][2] ELSE noVal

(* The value on edge f of the phi q of block b: known, or computed there.  *)
AddEdge(w, v, q, f) ==
    LET o == AtEdge(w, v, f)
        known == KnownAt(w, o, f)
        new == Len(w.ops) + 1
        b == w.ops[v].block
        x == IF known # noVal THEN w
             ELSE [w EXCEPT
                    !.ops = Append(@, [Op(o.opcode, o.in, o.imm, f) EXCEPT !.block = f]),
                    !.pos = Append(@, NoPos),
                    !.blocks[f].code = Front(@) \o <<new, Last(@)>>]
    IN  [x EXCEPT !.blocks[b].alts =
            Append(@, Alt(q, f, IF known # noVal THEN known ELSE new))]

(* The new phi has no index in the block: it is that of the first phi.     *)
MakePhi(w, v) ==
    LET b == w.ops[v].block
        q == Len(w.ops) + 1
        phi == [w EXCEPT
                 !.ops = Append(@, [Op("phi", << >>, 0, b) EXCEPT !.phiIndex = 1]),
                 !.pos = Append(@, NoPos),
                 !.blocks[b].code = <<q>> \o @]
        all == FoldLeft(LAMBDA x, f : AddEdge(x, v, q, f), phi, w.comeFrom[b])
    IN  [all EXCEPT !.ops[v] = makeNOP(@), !.renames = Append(@, <<v, q>>)]

CheckPre(w, v) ==
    LET b == w.ops[v].block
        from == ToSet(w.comeFrom[b])
    IN  IF /\ \A f \in from : w.pdom[f] = b
           /\ \E f \in from : KnownAt(w, AtEdge(w, v, f), f) # noVal
        THEN MakePhi(w, v) ELSE w

-----------------------------------------------------------------------------
(* Pairs.                                                                  *)

(* The pairs sorted, and what is tried in a round: each pair, and after    *)
(* those of one first operation the others among them.                     *)
Sorted(pairs) ==
    SortSeq(pairs, LAMBDA p, q : p[1] < q[1] \/ (p[1] = q[1] /\ p[2] < q[2]))

Among(pairs, j, i) ==
    FlattenSeq([p \in 1..(i - j) |->
        [q \in 1..(i - j - p) |-> <<pairs[j + p - 1][2], pairs[j + p + q - 1][2]>>]])

Attempts(pairs) ==
    LET n == Len(pairs)
        first(i) == CHOOSE j \in 1..i : /\ pairs[j][1] = pairs[i][1]
                                        /\ \A k \in 1..(j - 1) : pairs[k][1] # pairs[i][1]
    IN  FlattenSeq([i \in 1..n |->
            (IF i > 1 /\ pairs[i - 1][1] # pairs[i][1]
             THEN <<pairs[i]>> \o Among(pairs, first(i - 1), i) ELSE <<pairs[i]>>)])
        \o (IF n = 0 THEN << >> ELSE Among(pairs, first(n), n + 1))

Replace(w, v, by) ==
    [w EXCEPT !.ops[v] = makeNOP(@), !.ops[by].noOpt = FALSE,
              !.renames = Append(@, <<v, by>>),
              !.progress = TRUE, !.anyProgress = TRUE]

(* The closest common dominator d, and whether all blocks between it and b *)
(* are where the paths from their dominator meet; the first below d need   *)
(* not be.                                                                 *)
ClosestDom(w, b, c) ==
    LET common == DomsOf(w, b) \cap DomsOf(w, c)
    IN  CHOOSE d \in common : DomsOf(w, d) = common

SureFrom(w, d, b) ==
    \A i \in DomsOf(w, b) \ DomsOf(w, d) : w.idom[i] # d => w.pdom[w.idom[i]] = i

AtPos(w, v) ==
    LET code == w.blocks[w.ops[v].block].code
    IN  w.pos[v] \in DOMAIN code /\ code[w.pos[v]] = v

(* csePair: of two operations that compute the same, one goes.             *)
CsePair(w, p) ==
    LET v0 == p[1]
        v1 == p[2]
        b0 == w.ops[v0].block
        b1 == w.ops[v1].block
        ccd == ClosestDom(w, b0, b1)
        known == Asserted(w, AtPos(w, v0) /\ AtPos(w, v1))
        meets == Asserted(w, w.ops[v0].opcode = "li" => w.ops[v0].imm = w.memout[ccd])
    IN  IF w.fails # "no" \/ "nop" \in {w.ops[v0].opcode, w.ops[v1].opcode} THEN w
        ELSE IF ccd \notin {b0, b1} /\ ~(SureFrom(w, ccd, b0) /\ SureFrom(w, ccd, b1)) THEN w
        ELSE IF b0 = b1 THEN IF w.pos[v0] < w.pos[v1] THEN Replace(known, v1, v0)
                             ELSE Replace(known, v0, v1)
        ELSE IF ccd = b1 THEN Replace(w, v0, v1)
        ELSE IF ccd = b0 THEN Replace(w, v1, v0)
        ELSE Replace(MoveTo(meets, v0, ccd), v1, v0)

-----------------------------------------------------------------------------
(* The rename pass: an operation that is not in its block any more leaves  *)
(* an empty place.                                                         *)
Substituted(w, v) == FoldLeft(LAMBDA x, r : IF x = r[1] THEN r[2] ELSE x, v, w.renames)

RenameBlock(w, b) ==
    LET code == w.blocks[b].code
        here(i) == i # noVal /\ w.ops[i].block = b
        jumps == SelectSeq(code, LAMBDA i : here(i) /\ w.ops[i].opcode \in Jumps)
        x == [w EXCEPT
                !.blocks[b].code = [c \in DOMAIN @ |-> IF here(@[c]) THEN @[c] ELSE noVal],
                !.needDCE = @ \/ \E i \in ToSet(code) : i # noVal /\ ~here(i),
                !.ops = [i \in DOMAIN @ |->
                    IF here(i) /\ i \in ToSet(code)
                    THEN [@[i] EXCEPT !.in = [k \in DOMAIN @ |-> Substituted(w, @[k])]]
                    ELSE @[i]]]
    IN  FoldLeft(LAMBDA y, t : [y EXCEPT !.blocks[t].alts = [n \in DOMAIN @ |->
                                  [@[n] EXCEPT !.val = Substituted(w, @)]]],
                 x, FlattenSeq([j \in DOMAIN jumps |-> w.ops[jumps[j]].label]))

RenameAll(w) == FoldLeft(RenameBlock, w, w.live)

-----------------------------------------------------------------------------
(* The steps.                                                              *)

CseUnchanged ==
    UNCHANGED <<script, env, currentBlock, built, unsafeOpt, todo, nUse, tmp, progress,
                scan, level, stage, repeat>>

(* On with w to the next phase, unless that has failed.                    *)
Goes(w, phase) ==
    /\ Continues(w)
    /\ pc' = IF w.fails = "no" THEN phase ELSE End(w)

(* The first pass of opt() after dead code elimination, and of each round. *)
beginCse ==
    /\ pc = "done"
    /\ stage = "cse" \/ (stage = "clean" /\ ~scan.progress /\ repeat)
    /\ \E start \in {[NoCse EXCEPT !.upTo = Len(RebuildCfg(Proc).live),
                        !.pos = [i \in DOMAIN ops |->
                          LET code == blocks[ops[i].block].code
                          IN  IF i \in ToSet(code)
                              THEN CHOOSE c \in DOMAIN code : code[c] = i ELSE NoPos]]} :
       \E s \in {[Proc EXCEPT !.livein = [b \in DOMAIN blocks |->
                                IF b \in DOMAIN @ THEN @[b] ELSE {}]]} :
          Goes(rebuild_memtags(Rebuilt(s @@ start)), "hoist")
    /\ stage' = "cse" /\ repeat' = FALSE
    /\ at' = NoPlace
    /\ UNCHANGED <<script, env, currentBlock, built, unsafeOpt, todo, nUse, tmp,
                   progress, scan, level>>

(* One of the blocks there were at the start.  When an edge is broken, the *)
(* list of blocks may no longer be where the loop looks for the next one.  *)
hoistBlock ==
    /\ pc = "hoist" /\ at.c <= cse.upTo
    /\ \E w \in {HoistBlock(All, live[at.c])} :
       \E phase \in (IF Len(w.live) > Len(live) THEN {"hoist", "faulted"} ELSE {"hoist"}) :
          Goes(w, phase)
    /\ at' = NextPlace
    /\ CseUnchanged

(* What is left is dead code elimination, if it is needed: "need DCE when  *)
(* hoisting, even if we don't make real progress".                         *)
Finish(w) ==
    /\ Becomes(w)
    /\ cse' = IF w.fails = "no" THEN NoCse ELSE [NoCse EXCEPT !.fails = w.fails]
    /\ nUse' = [v \in DOMAIN w.ops |-> IF v \in DOMAIN nUse THEN nUse[v] ELSE 0]
    /\ tmp' = [v \in DOMAIN w.ops |-> IF v \in DOMAIN tmp THEN tmp[v] ELSE noVal]
    /\ stage' = "jump"
    /\ IF w.fails # "no"
       THEN pc' = End(w) /\ UNCHANGED <<progress, unsafeOpt, repeat>>
       ELSE IF w.needDCE \/ w.anyProgress
       THEN pc' = "round" /\ progress' = TRUE /\ unsafeOpt' = level /\ repeat' = TRUE
       ELSE pc' = "done" /\ UNCHANGED <<progress, unsafeOpt, repeat>>
    /\ at' = NoPlace
    /\ UNCHANGED <<script, env, currentBlock, built, todo, scan, level>>

(* rebuild_cfg asserts that blocks end in what ends them.                  *)
Hoisted ==
    LET ends == { Last(blocks[b].code) : b \in ToSet(live) }
    IN  IF ~cse.needDom THEN All
        ELSE IF noVal \in ends THEN Fail(All, "faulted")
        ELSE IF { ops[i].opcode : i \in ends } \subseteq Terminators THEN Rebuilt(All)
        ELSE Fail(All, "asserted")

noPairs ==
    /\ pc = "hoist" /\ at.c > cse.upTo /\ cse.pairs = << >>
    /\ \E w \in {Hoisted} : Finish(w)

sortPairs ==
    /\ pc = "hoist" /\ at.c > cse.upTo /\ cse.pairs # << >>
    /\ \E w \in {Hoisted} :
          Goes([w EXCEPT !.pairs = Sorted(@),
                         !.pre = { v \in { e.index : e \in Range(w.table) } : OnPhi(w, v) }],
               "pre")
    /\ UNCHANGED at
    /\ CseUnchanged

(* In the order of the table, which is that of hashes.                     *)
checkPre ==
    /\ pc = "pre"
    /\ \E v \in cse.pre : Goes([CheckPre(All, v) EXCEPT !.pre = @ \ {v}], "pre")
    /\ UNCHANGED at
    /\ CseUnchanged

(* A round over all pairs; the last one replaces nothing.                  *)
csePairs ==
    /\ pc = "pairs" \/ (pc = "pre" /\ cse.pre = {})
    /\ \E w \in {FoldLeft(CsePair, [All EXCEPT !.progress = FALSE], Attempts(cse.pairs))} :
          Goes(w, IF w.progress THEN "pairs" ELSE "names")
    /\ UNCHANGED at
    /\ CseUnchanged

renameAll ==
    /\ pc = "names"
    /\ \E w \in {RenameAll(All)} : Finish(w)

OptCse ==
    \/ beginCse \/ hoistBlock \/ noPairs \/ sortPairs \/ checkPre \/ csePairs \/ renameAll

-----------------------------------------------------------------------------
(* opt() up to sinking: all is repeated after a round in which opt_cse or  *)
(* a call of opt_jump has made progress.                                   *)
OptLoop ==
    \/ (FrontEnd \/ Dce) /\ UNCHANGED <<NotLoop, cse, repeat>>
    \/ OptJump /\ repeat' = (repeat \/ (pc = "done" /\ stage = "clean")) /\ UNCHANGED cse
    \/ OptCse

=============================================================================
