------------------------------ MODULE MCPatch -------------------------------
(***************************************************************************)
(* Instances of Patch for TLC: diffs between a few small files, every      *)
(* script of up to two lines and some longer ones, each cut into hunks in  *)
(* every way: with and without context, next to one another or apart.      *)
(***************************************************************************)
EXTENDS Patch, TLC
CONSTANTS f, g, outside

Scripts == UNION {[1..n -> {"keep", "drop", "add"} \X {"x", "y"}] : n \in 0..2}
Longer ==
    {<<<<"keep", "x">>, <<"drop", "y">>, <<"keep", "x">>, <<"add", "x">>, <<"keep", "y">>>>,
     <<<<"add", "x">>, <<"keep", "x">>, <<"keep", "y">>, <<"drop", "x">>, <<"add", "y">>, <<"keep", "x">>>>,
     <<<<"drop", "x">>, <<"keep", "y">>, <<"add", "x">>, <<"keep", "y">>, <<"drop", "y">>>>}

Side(s, gone) == LET t == SelectSeq(s, LAMBDA line : line[1] # gone)
                 IN [i \in 1..Len(t) |-> t[i][2]]
FilesOf(lines) == IF lines = <<>> THEN {NoFile, File(<<>>, FALSE)}
                  ELSE {File(lines, e) : e \in BOOLEAN}

(* The stretches that start at these lines, each as far as these go.       *)
Stretches(starts, lines) ==
    LET LastOf(i) == CHOOSE j \in i..Max(lines) :
                        /\ \A k \in i..j : k \in lines /\ (k \in starts => k = i)
                        /\ j + 1 \notin lines \/ j + 1 \in starts
    IN SetToSortSeq({<<i, LastOf(i)>> : i \in starts}, LAMBDA a, b : a[1] < b[1])
Cuts(s) ==
    LET n == Len(s)
        changed == {i \in 1..n : s[i][1] # "keep"}
        Firsts(lines) == {i \in lines : i - 1 \notin lines}
    IN UNION {{Stretches(starts \cup Firsts(lines), lines) : starts \in SUBSET lines}
              : lines \in {l \in SUBSET (1..n) : changed \subseteq l}}

EditsOn(p, scripts) ==
    {e \in UNION {{EditOf(p, from, to, s, shown) : shown \in Cuts(s),
                     from \in FilesOf(Side(s, "add")), to \in FilesOf(Side(s, "drop"))}
                  : s \in scripts} : Meant(e)}

(* The one hunk that replaces a whole file.                                *)
Replacing(p, from, to) ==
    LET s == [i \in 1..Len(from.lines) |-> <<"drop", from.lines[i]>>]
             \o [i \in 1..Len(to.lines) |-> <<"add", to.lines[i]>>]
    IN EditOf(p, from, to, s, IF s = <<>> THEN <<>> ELSE <<<<1, Len(s)>>>>)

Second == {NoFile, File(<<"x">>, TRUE)}
First == {Replacing(f, a, b) : a \in Second, b \in Second \cup {File(<<"y">>, FALSE)}}
SecondEdits == {Replacing(p, a, b) : p \in {f, g}, a \in Second, b \in Second}
Odd == {Replacing(outside, NoFile, File(<<"x">>, TRUE)),
        [Replacing(f, File(<<"x">>, TRUE), File(<<"y">>, TRUE)) EXCEPT !.new = g]}
MCDiffs == {<<e>> : e \in EditsOn(f, Scripts \cup Longer) \cup Odd} \cup {<<>>}
           \cup {<<e, s>> : e \in First, s \in SecondEdits}
           \cup {<<s, e>> : e \in Odd, s \in SecondEdits}
MCDisks == {[p \in Paths |-> IF p = f THEN File(<<"x", "y">>, TRUE) ELSE NoFile]}
=============================================================================
