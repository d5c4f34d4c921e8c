------------------------------ MODULE LineDiff ------------------------------
(* The line and word diff of the save review (model/diff.ts): a longest      *)
(* common subsequence, its rows paired, merged and folded for the views.     *)
(* A line is a sequence of tokens and a token a sequence of letters, so      *)
(* that its length is what the thresholds compare. A text is <<>> when empty *)
(* and else the lines between its line feeds, the last one blank when the    *)
(* text ends with one.                                                       *)
EXTENDS Integers, Sequences, FiniteSets, SequencesExt, FiniteSetsExt

CONTEXT == 3    \* unchanged lines kept around a change

(* A line feed at the end starts no line of its own. *)
splitLines(text) == IF text # <<>> /\ Last(text) = <<>> THEN Front(text) ELSE text

(* dp of both diffs: the most that what follows i and j has in common. *)
LCS(a, b) ==
    LET dp[i \in 1..(Len(a) + 1), j \in 1..(Len(b) + 1)] ==
            IF i > Len(a) \/ j > Len(b) THEN 0
            ELSE IF a[i] = b[j] THEN dp[i + 1, j + 1] + 1
            ELSE Max({dp[i + 1, j], dp[i, j + 1]})
    IN dp

(* The walk from the start: a common item, else whichever side keeps more.   *)
RECURSIVE Walk(_, _, _, _, _)
Walk(a, b, dp, i, j) ==
    IF i <= Len(a) /\ j <= Len(b) /\ a[i] = b[j]
    THEN <<[type |-> "eq", text |-> a[i], oldNo |-> i, newNo |-> j]>> \o Walk(a, b, dp, i + 1, j + 1)
    ELSE IF i <= Len(a) /\ (j > Len(b) \/ dp[i + 1, j] >= dp[i, j + 1])
    THEN <<[type |-> "del", text |-> a[i], oldNo |-> i, newNo |-> 0]>> \o Walk(a, b, dp, i + 1, j)
    ELSE IF j <= Len(b)
    THEN <<[type |-> "add", text |-> b[j], oldNo |-> 0, newNo |-> j]>> \o Walk(a, b, dp, i, j + 1)
    ELSE <<>>

Aligned(a, b) == Walk(a, b, LCS(a, b), 1, 1)
(* Walks past the longer side first, whatever the two still share. *)
Bug_diffGreedy(current, next) ==
    LET a == splitLines(current)
        b == splitLines(next)
    IN Walk(a, b, [i \in 1..(Len(a) + 1), j \in 1..(Len(b) + 1) |-> i + j], 1, 1)
diffLines(current, next) == Aligned(splitLines(current), splitLines(next))

OfType(rows, type) == SelectSeq(rows, LAMBDA r : r.type = type)
diffStats(a, b) == <<Len(OfType(diffLines(a, b), "add")), Len(OfType(diffLines(a, b), "del"))>>

(* The maximal runs of rows on which a test has one value. *)
Runs(rows, test(_)) ==
    FoldLeft(LAMBDA runs, r : IF runs # <<>> /\ test(Last(runs)[1]) = test(r)
                              THEN Append(Front(runs), Append(Last(runs), r))
                              ELSE Append(runs, <<r>>),
             <<>>, rows)
Same(r) == r.type = "eq"

(* Split view: in a run of changes the n-th removal faces the n-th addition. *)
Nothing == [type |-> "none", text |-> <<>>, oldNo |-> 0, newNo |-> 0]
Nth(rows, n) == IF n <= Len(rows) THEN rows[n] ELSE Nothing
PairRun(run) ==
    LET dels == OfType(run, "del")
        adds == OfType(run, "add")
    IN IF Same(run[1]) THEN [n \in DOMAIN run |-> [left |-> run[n], right |-> run[n], changed |-> FALSE]]
       ELSE [n \in 1..Max({Len(dels), Len(adds)}) |->
                [left |-> Nth(dels, n), right |-> Nth(adds, n), changed |-> TRUE]]
buildPairs(rows) == FoldLeft(LAMBDA pairs, run : pairs \o PairRun(run), <<>>, Runs(rows, Same))

----------------------------------------------------------------------------
(* The word diff of two lines. *)

Letters(tokens) == FoldLeft(LAMBDA n, t : n + Len(t), 0, tokens)
Texts(rows) == [n \in DOMAIN rows |-> rows[n].text]
tokenDiff(old, new) == Aligned(old, new)
Merged(old, new) ==    \* neighbours of one kind are one stretch
    LET kind(r) == r.type
        runs == Runs(tokenDiff(old, new), kind)
    IN [n \in DOMAIN runs |-> [kind |-> runs[n][1].type, text |-> FlattenSeq(Texts(runs[n]))]]
ChangedOf(merged) == SelectSeq(merged, LAMBDA s : s.kind # "eq")
MergedLetters(merged) == FoldLeft(LAMBDA n, s : n + Len(s.text), 0, merged)
sideSegs(merged, side) ==
    SelectSeq(merged, LAMBDA s : s.kind # (IF side = "old" THEN "add" ELSE "del"))
SharesTokens(old, new) == LCS(old, new)[1, 1] > 0

similar(merged) ==
    MergedLetters(SelectSeq(merged, LAMBDA s : s.kind = "eq")) * 2 >= MergedLetters(merged)
inlineable(merged) ==
    /\ Len(ChangedOf(merged)) \in 1..2
    /\ MergedLetters(ChangedOf(merged)) * 3 < MergedLetters(merged)

(* Whether a pair gets its words marked on both sides. *)
attachWordDiff(pair) ==
    /\ pair.changed /\ pair.left # Nothing /\ pair.right # Nothing
    /\ SharesTokens(pair.left.text, pair.right.text)
    /\ similar(Merged(pair.left.text, pair.right.text))

(* Unified view: a lone small edit is one row, any other run all its         *)
(* removals and then all its additions.                                      *)
URow(row) == [change |-> ~Same(row), row |-> row, merged |-> <<>>, oldNo |-> row.oldNo, newNo |-> row.newNo]
Bug_UnifyFirst(run) ==    \* merges whenever a run starts with a small edit
    LET dels == OfType(run, "del")
        adds == OfType(run, "add")
    IN IF dels # <<>> /\ adds # <<>> /\ inlineable(Merged(dels[1].text, adds[1].text))
       THEN <<[change |-> TRUE, row |-> Nothing, merged |-> Merged(dels[1].text, adds[1].text),
               oldNo |-> dels[1].oldNo, newNo |-> adds[1].newNo]>>
       ELSE [n \in DOMAIN run |-> URow((dels \o adds \o OfType(run, "eq"))[n])]
UnifyRun(run) ==
    LET dels == OfType(run, "del")
        adds == OfType(run, "add")
        merged == Merged(dels[1].text, adds[1].text)
        small == /\ Len(dels) = 1 /\ Len(adds) = 1
                 /\ SharesTokens(dels[1].text, adds[1].text)
                 /\ inlineable(merged)
        rows == IF Same(run[1]) THEN run ELSE dels \o adds
    IN IF small THEN <<[change |-> TRUE, row |-> Nothing, merged |-> merged,
                        oldNo |-> dels[1].oldNo, newNo |-> adds[1].newNo]>>
       ELSE [n \in DOMAIN rows |-> URow(rows[n])]
unifyRows(rows) == FoldLeft(LAMBDA out, run : out \o UnifyRun(run), <<>>, Runs(rows, Same))

----------------------------------------------------------------------------
(* Changes and CONTEXT items around them stay; the rest folds into gaps.     *)
Near(changes, n) == \E k \in changes : k - n \in -CONTEXT..CONTEXT
collapse(items, changes) ==    \* changes: the places of the changed items
    LET tagged == [n \in DOMAIN items |-> <<Near(changes, n), n>>]
        near(t) == t[1]
        runs == Runs(tagged, near)
    IN [n \in DOMAIN runs |->
           [kind |-> IF runs[n][1][1] THEN "rows" ELSE "gap", id |-> runs[n][1][2],
            items |-> [k \in DOMAIN runs[n] |-> items[runs[n][k][2]]]]]

rowVisible(type, mode) == type # (IF mode = "old" THEN "add" ELSE IF mode = "new" THEN "del" ELSE "")
=============================================================================
