------------------------------- MODULE Thread -------------------------------
(***************************************************************************)
(* A Job's Thread: the JSONL transcript on disk, and what replaying it     *)
(* yields (src/chinamax/transcript.py).                                    *)
(*                                                                         *)
(* A content block is its kind and an id.  The id of a tool use ties it to *)
(* its result, the id of a steer is the queue-file name; texts need none.  *)
(* A line is one appended record, whole or broken, with the steer id it    *)
(* carries (0 for none).  Retry records, which every reader skips, are     *)
(* left out.                                                               *)
(***************************************************************************)
EXTENDS Naturals, SequencesExt

Block(kind, id)       == [kind |-> kind, id |-> id]
Text                  == Block("text", 0)
Message(role, blocks) == [role |-> role, blocks |-> blocks]
User(blocks)          == Message("user", blocks)

Line(role, blocks)   == [role |-> role, blocks |-> blocks, steer |-> 0, whole |-> TRUE]
SteerLine(n)         == [Line("user", <<Block("steer", n)>>) EXCEPT !.steer = n]
Broken               == [Line("none", <<>>) EXCEPT !.whole = FALSE]

-----------------------------------------------------------------------------
(* The file.  `open` says that its last line lacks its newline: a record   *)
(* appended then continues that line, and neither of the two parses.       *)
EmptyDisk == [lines |-> <<>>, open |-> FALSE]

Write(disk, line) ==
    [lines |-> IF disk.open THEN Append(Front(disk.lines), Broken)
                            ELSE Append(disk.lines, line),
     open  |-> FALSE]

(* What a process killed inside the write leaves: nothing of the record,   *)
(* part of it, or all of it but the newline.                               *)
Torn(disk, line) ==
    {disk} \cup {[Write(disk, part) EXCEPT !.open = TRUE] : part \in {Broken, line}}

-----------------------------------------------------------------------------
(* `read_messages` raises on a broken line unless it is the last.          *)
Parses(lines) == \A i \in DOMAIN lines : lines[i].whole \/ i = Len(lines)

(* The lines of a file that parses, but for a broken last one.             *)
WholeLines(lines) == IF lines # <<>> /\ ~Last(lines).whole THEN Front(lines) ELSE lines
ReadMessages(lines) ==
    LET whole == WholeLines(lines)
    IN [i \in DOMAIN whole |-> Message(whole[i].role, whole[i].blocks)]
ReadSteerIds(lines) == {line.steer : line \in ToSet(WholeLines(lines))} \ {0}

-----------------------------------------------------------------------------
(* The elements of s that are in the set, in their order.                  *)
Selected(s, set) ==
    LET to[i \in 0..Len(s)] == IF i = 0 THEN <<>>
                               ELSE IF s[i] \in set THEN Append(to[i - 1], s[i])
                               ELSE to[i - 1]
    IN to[Len(s)]

UseKinds    == {"tool_use", "report_result"}
ResultKinds == {"tool_result", "interrupted", "reported"}

Ids(blocks, kinds) == {b.id : b \in {c \in ToSet(blocks) : c.kind \in kinds}}
Answered(messages) == UNION {Ids(m.blocks, ResultKinds) : m \in ToSet(messages)}

(* The two synthetic results: the terminal report of an earlier Job was    *)
(* recorded, any other unanswered call was interrupted.                    *)
SyntheticResult(b) ==
    Block(IF b.kind = "report_result" THEN "reported" ELSE "interrupted", b.id)

(* What the turn m leaves unanswered, as synthetic results.                *)
Pending(m, answered) ==
    LET open == Selected(m.blocks, [kind : UseKinds, id : Nat \ answered])
    IN IF m.role = "assistant" THEN [i \in DOMAIN open |-> SyntheticResult(open[i])]
       ELSE <<>>

(* `repair_messages`: the synthetic results of a turn open the user turn   *)
(* after it, or become one.                                                *)
Close(turns, pending) ==
    IF pending = <<>> THEN turns ELSE Append(turns, User(pending))
Repair(messages) ==
    LET left(i) == IF i = 0 THEN <<>> ELSE Pending(messages[i], Answered(messages))
        to[i \in 0..Len(messages)] ==
            IF i = 0 THEN <<>>
            ELSE IF messages[i].role = "user"
            THEN Append(to[i - 1], User(left(i - 1) \o messages[i].blocks))
            ELSE Append(Close(to[i - 1], left(i - 1)), messages[i])
    IN Close(to[Len(messages)], left(Len(messages)))

(* What-if: the new blocks before the old ones.                            *)
RideInFront(messages, blocks) ==
    IF messages # <<>> /\ Last(messages).role = "user"
    THEN Append(Front(messages), User(blocks \o Last(messages).blocks))
    ELSE Append(messages, User(blocks))

(* Put blocks on the user turn that ends a history, or start one with them.*)
Ride(messages, blocks) ==
    IF messages # <<>> /\ Last(messages).role = "user"
    THEN Append(Front(messages), User(Last(messages).blocks \o blocks))
    ELSE Append(messages, User(blocks))

(* What-if: the reader that does not merge adjacent user turns.            *)
KeepApart(messages) == messages

(* `coalesce_user_turns`.                                                  *)
Coalesce(messages) ==
    LET to[i \in 0..Len(messages)] ==
            IF i = 0 THEN <<>>
            ELSE IF messages[i].role = "user" THEN Ride(to[i - 1], messages[i].blocks)
            ELSE Append(to[i - 1], messages[i])
    IN to[Len(messages)]

(* `read_repaired_messages`: what a relaunch or a resume starts from.      *)
Replay(lines) == Coalesce(Repair(ReadMessages(lines)))

(* `merge_follow_up`, and `write_messages` of the result.                  *)
MergeFollowUp(messages) == Ride(messages, <<Text>>)
CopyOf(messages) ==
    [lines |-> [i \in DOMAIN messages |-> Line(messages[i].role, messages[i].blocks)],
     open  |-> FALSE]

-----------------------------------------------------------------------------
(* What an endpoint demands of a history.                                  *)

(* No two user turns in a row.                                             *)
Alternates(messages) ==
    \A i \in 1..Len(messages) - 1 :
        ~(messages[i].role = "user" /\ messages[i + 1].role = "user")

(* The tool uses of a turn are answered by the user turn after it, each    *)
(* once and before any text, and no result answers anything else.          *)
AllAnswered(messages) ==
    \A i \in DOMAIN messages :
        /\ Ids(messages[i].blocks, UseKinds) # {} =>
               i < Len(messages) /\ messages[i + 1].role = "user"
        /\ messages[i].role = "user" =>
               LET blocks == messages[i].blocks
                   uses   == IF i = 1 THEN {} ELSE Ids(messages[i - 1].blocks, UseKinds)
                   n      == Cardinality(uses)
               IN /\ Len(blocks) >= n
                  /\ Ids(SubSeq(blocks, 1, n), ResultKinds) = uses
                  /\ \A k \in n + 1..Len(blocks) : blocks[k].kind \notin ResultKinds

(* The history `later` repeats `earlier` and goes on: only the last turn   *)
(* of `earlier` may have gained blocks, at its end.                        *)
Extends(later, earlier) ==
    \A i \in DOMAIN earlier :
        /\ i <= Len(later)
        /\ later[i].role = earlier[i].role
        /\ IF i < Len(earlier) THEN later[i].blocks = earlier[i].blocks
                               ELSE IsPrefix(earlier[i].blocks, later[i].blocks)

(* The steers of a history, in the order the model reads them.             *)
SteersIn(blocks) ==
    LET steers == Selected(blocks, [kind : {"steer"}, id : Nat])
    IN [i \in DOMAIN steers |-> steers[i].id]
SteersOf(messages) ==
    LET to[i \in 0..Len(messages)] ==
            IF i = 0 THEN <<>> ELSE to[i - 1] \o SteersIn(messages[i].blocks)
    IN to[Len(messages)]
=============================================================================
