-------------------------------- MODULE Diff --------------------------------
(***************************************************************************)
(* The diff of a MODIFIED entry, from Delta::createDiff (Delta.hpp): the   *)
(* bounded Myers search with its early abandon, the opcodes made of its    *)
(* edit script, and the greedy fallback; written by create, then patched   *)
(* opcode by opcode by apply.                                              *)
(***************************************************************************)
EXTENDS Patch, SequencesExt, FiniteSetsExt

CONSTANTS
    Byte,         \* byte values
    MaxLen,       \* bound on the length of a chunk
    DLimit,       \* D_LIMIT: edit distance at which Myers gives up (2048)
    Checkpoints,  \* distances at which it may give up early ({256, 512, 1024})
    MaxCount      \* inline bytes of one opcode (255: its count is a byte)

ASSUME DiffAssumption == /\ DLimit \in Nat \ {0} /\ MaxCount \in Nat \ {0}
                         /\ Checkpoints \subseteq Nat /\ MaxLen \in Nat

Zeros(n) == [j \in 1 .. n |-> 0]

-----------------------------------------------------------------------------
(* myersSES(a, b, d_limit): the frontier v after each distance d.          *)

DMax(a, b) == Min({Len(a) + Len(b), DLimit})

(* Diagonals the inner loop visits at distance d.                          *)
Diagonals(d) == {k \in -d .. d : (k + d) % 2 = 0}

(* Equal bytes from (x, y) on.                                             *)
Snake(a, b, x, y) ==
    Max({0} \cup {n \in 1 .. Len(a) :
                    /\ x + n <= Len(a) /\ y + n <= Len(b)
                    /\ \A j \in 1 .. n : a[x + j] = b[y + j]})

(* Mutant: the worse of the two neighbours is extended.                    *)
FromAbove_Worse(v, d, k) == k = -d \/ (k # d /\ v[k - 1] > v[k + 1])

FromAbove(v, d, k) == k = -d \/ (k # d /\ v[k - 1] < v[k + 1])

Furthest(a, b, v, d, k) ==
    LET x == IF FromAbove(v, d, k) THEN v[k + 1] ELSE v[k - 1] + 1
    IN  x + Snake(a, b, x, x - k)

AtEnd(a, b, x, k) == x >= Len(a) /\ x - k >= Len(b)

(* The inner loop stops at the first diagonal that reaches the end.        *)
Advance(a, b, v, d) ==
    LET x    == [k \in Diagonals(d) |-> Furthest(a, b, v, d, k)]
        ends == {k \in Diagonals(d) : AtEnd(a, b, x[k], k)}
    IN  [k \in DOMAIN v |->
            IF k \in Diagonals(d) /\ \A e \in ends : k <= e THEN x[k] ELSE v[k]]

Reaches(a, b, v, d) == \E k \in Diagonals(d) : AtEnd(a, b, v[k], k)

(* The search ends when a frontier reaches the end of both chunks.         *)
Ended(a, b, v, d) == \E e \in 0 .. d - 1 : Reaches(a, b, v[e + 2], e)

Extend(a, b, v, d) ==
    Append(v, IF Ended(a, b, v, d) THEN v[d + 1] ELSE Advance(a, b, v[d + 1], d))

(* The frontiers, first the initial one; that of distance d is v[d + 2].   *)
Frontiers(a, b) ==
    LET D == DMax(a, b)
    IN  FoldLeft(LAMBDA v, d : Extend(a, b, v, d),
                 <<[k \in -D .. D |-> 0]>>, [j \in 1 .. D + 1 |-> j - 1])

(* Too few matches for so many edits: looked at even when the end has just *)
(* been reached.                                                           *)
Abandons(v, d) ==
    /\ d \in Checkpoints
    /\ LET best == Max({0} \cup {2 * v[d + 2][k] - k : k \in -d .. d})
       IN  (best - d) \div 2 < d \div 2

(* The distance at which the search succeeds: a set of at most one.        *)
FinalDistance(a, b) ==
    LET v == Frontiers(a, b)
    IN  {d \in 0 .. DMax(a, b) :
            /\ Reaches(a, b, v[d + 2], d)
            /\ \A e \in 0 .. d : ~Abandons(v, e) /\ (e < d => ~Reaches(a, b, v[e + 2], e))}

(* From a point of the frontier of distance d to one of the frontier v     *)
(* before it.                                                              *)
Retrace(v, s, d) ==
    LET k     == s.x - s.y
        above == FromAbove(v, d, k)
        prev  == IF above THEN k + 1 ELSE k - 1
        px    == v[prev]
        snake == Max({0, Min({s.x - px, s.y - (px - prev)})})
    IN  [x   |-> s.x - snake - (IF above THEN 0 ELSE 1),
         y   |-> s.y - snake - (IF above THEN 1 ELSE 0),
         ses |-> <<IF above THEN 1 ELSE -1>> \o Zeros(snake) \o s.ses]

(* The edit script, backwards from the end: 0 for an equal byte, 1 for an  *)
(* insertion, -1 for a deletion.                                           *)
Backtrack(a, b, final) ==
    LET v     == Frontiers(a, b)
        first == FoldLeft(LAMBDA s, d : Retrace(v[d + 1], s, d),
                          [x |-> Len(a), y |-> Len(b), ses |-> <<>>],
                          [j \in 1 .. final |-> final + 1 - j])
    IN  Zeros(Max({0, Min({first.x, first.y})})) \o first.ses

Script(a, b, final) ==
    IF a = <<>> THEN [j \in 1 .. Len(b) |-> 1]
    ELSE IF b = <<>> THEN [j \in 1 .. Len(a) |-> -1]
    ELSE Backtrack(a, b, final)

(* The distance myersSES() finds a script of, if any; an empty side needs  *)
(* no search.                                                              *)
Found(a, b) == IF a = <<>> \/ b = <<>> THEN {Len(a) + Len(b)} ELSE FinalDistance(a, b)

-----------------------------------------------------------------------------
(* Mutant: the count byte is forgotten.                                    *)
Inline_Unsplit(op, pos, bytes) ==
    IF bytes = <<>> THEN <<>> ELSE <<Opcode(op, pos, bytes, 0)>>

(* emitInlineBytes(): as many opcodes as the count byte requires.          *)
Inline(op, pos, bytes) ==
    [j \in 1 .. (Len(bytes) + MaxCount - 1) \div MaxCount |->
        LET off == (j - 1) * MaxCount
        IN  Opcode(op, pos + off,
                   SubSeq(bytes, off + 1, Min({off + MaxCount, Len(bytes)})), 0)]

(* Mutants: a replacement need not be as long as what it replaces; pure    *)
(* deletions are dropped.                                                  *)
Block_AnyReplacement(pos, deletes, inserts) ==
    Inline(IF deletes > 0 THEN "D" ELSE "I", pos, inserts)

Block_NoDeletion(pos, deletes, inserts) ==
    Inline(IF deletes = Len(inserts) THEN "D" ELSE "I", pos, inserts)

Block(pos, deletes, inserts) ==
    IF deletes > 0 /\ deletes = Len(inserts) THEN Inline("D", pos, inserts)
    ELSE (IF deletes > 0 THEN <<Opcode("X", pos, <<>>, deletes)>> ELSE <<>>)
         \o Inline("I", pos, inserts)

(* emitOpcodesFromSES(): one block per run of edits.                       *)
Flush(s) == [s EXCEPT !.ops = @ \o Block(s.y - Len(s.ins), s.del, s.ins),
                      !.del = 0, !.ins = <<>>]

Emit(b, s, e) == CASE e = 0  -> [Flush(s) EXCEPT !.y = @ + 1]
                   [] e = -1 -> [s EXCEPT !.del = @ + 1]
                   [] e = 1  -> [s EXCEPT !.ins = Append(@, b[s.y + 1]), !.y = @ + 1]

Opcodes(b, ses) ==
    Flush(FoldLeft(LAMBDA s, e : Emit(b, s, e),
                   [y |-> 0, del |-> 0, ins |-> <<>>, ops |-> <<>>], ses)).ops

(* Bytes from i on that are equal in both chunks, or that all differ.      *)
Run(a, b, both, i, same) ==
    Max({0} \cup {n \in 1 .. both - i : \A j \in 1 .. n : (a[i + j] = b[i + j]) = same})

(* createGreedyDiff(): replaces where the two differ position by position, *)
(* then cuts or extends the end.                                           *)
Greedy(a, b) ==
    LET both == Min({Len(a), Len(b)})
        from[i \in 0 .. both] ==
            IF i = both THEN <<>>
            ELSE LET start == i + Run(a, b, both, i, TRUE)
                     n == Min({Run(a, b, both, start, FALSE), MaxCount})
                 IN  (IF n = 0 THEN <<>>
                      ELSE <<Opcode("D", start, SubSeq(b, start + 1, start + n), 0)>>)
                     \o from[start + n]
    IN  from[0]
        \o (IF Len(a) > both THEN <<Opcode("X", both, <<>>, Len(a) - both)>> ELSE <<>>)
        \o Inline("I", both, SubSeq(b, both + 1, Len(b)))

CreateDiff(a, b) ==
    LET found == Found(a, b)
    IN  IF found = {} THEN Greedy(a, b) ELSE Opcodes(b, Script(a, b, Max(found)))

-----------------------------------------------------------------------------
(* create makes a diff of two chunks, apply patches the old one with it.   *)
VARIABLES
    old, new,  \* the chunks
    ops,       \* opcodes still to be applied
    patch,     \* the patch under way
    output,    \* the result, once there is one
    state      \* "create", "patch", "done" or "rejected"

vars == <<old, new, ops, patch, output, state>>

Chunks == SeqOf(Byte, MaxLen)

Init == /\ old \in Chunks /\ new \in Chunks
        /\ ops = <<>> /\ patch = Patching(<<>>, 0) /\ output = <<>>
        /\ state = "create"

Create == /\ state = "create" /\ state' = "patch"
          /\ ops' = CreateDiff(old, new)
          /\ UNCHANGED <<old, new, patch, output>>

Apply == /\ state = "patch" /\ ops # <<>>
         /\ IF Fits(patch, Head(ops), old, Len(new))
            THEN /\ patch' = PatchOp(patch, Head(ops), old)
                 /\ ops' = Tail(ops) /\ UNCHANGED state
            ELSE state' = "rejected" /\ UNCHANGED <<patch, ops>>
         /\ UNCHANGED <<old, new, output>>

Finish == /\ state = "patch" /\ ops = <<>>
          /\ IF TailFits(patch, old, Len(new))
             THEN state' = "done" /\ output' = PatchTail(patch, old, Len(new))
             ELSE state' = "rejected" /\ UNCHANGED output
          /\ UNCHANGED <<old, new, ops, patch>>

Next == Create \/ Apply \/ Finish \/ (state \in {"done", "rejected"} /\ UNCHANGED vars)

Spec == Init /\ [][Next]_vars

-----------------------------------------------------------------------------
(* What apply makes of a diff of create is the new chunk, whichever of the *)
(* two algorithms wrote it, and no bounds check rejects it.                *)
RoundTrip == /\ state # "rejected"
             /\ state = "done" => output = new

(* The length of a longest common subsequence of two chunks.               *)
Common(a, b) ==
    LET NextRow(row, byte) ==
            LET next[j \in 0 .. Len(b)] ==
                    IF j = 0 THEN 0
                    ELSE IF byte = b[j] THEN 1 + row[j - 1] ELSE Max({row[j], next[j - 1]})
            IN  next
    IN  FoldLeft(NextRow, [j \in 0 .. Len(b) |-> 0], a)[Len(b)]

Distance(a, b) == Len(a) + Len(b) - 2 * Common(a, b)

(* A Myers search that succeeds finds a shortest edit script, and it gives *)
(* up only beyond its limit or where few bytes match.                      *)
Shortest ==
    state = "create" /\ old # <<>> /\ new # <<>> =>
        LET found == FinalDistance(old, new)
            least == Distance(old, new)
        IN  /\ found \subseteq {least}
            /\ found = {} => least > DLimit \/ \E d \in Checkpoints : d <= least

(* The diff is well formed: every opcode does something, its bytes fit its *)
(* count byte, and positions never go backwards.                           *)
WellFormed ==
    /\ \A j \in 1 .. Len(ops) : /\ Len(ops[j].bytes) <= MaxCount
                                /\ ops[j].op = "X" <=> ops[j].del > 0
                                /\ ops[j].op # "X" <=> ops[j].bytes # <<>>
    /\ \A j \in 2 .. Len(ops) : ops[j - 1].pos + Len(ops[j - 1].bytes) <= ops[j].pos

(* An empty diff, of which create ships the bytes instead, means that the  *)
(* chunks are equal: equal chunks never make an entry apply rejects.       *)
EmptyMeansEqual == state = "patch" /\ patch = Patching(<<>>, 0) /\ ops = <<>> => old = new
=============================================================================
