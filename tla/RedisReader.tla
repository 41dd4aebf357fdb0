----------------------------- MODULE RedisReader -----------------------------
(***************************************************************************)
(* The incremental reply parser of hiredis (read.c).  Bytes are symbols: a *)
(* digit, a type byte, CR, LF, or any other string.  What the create*      *)
(* functions build is the sequence of the objects created for one reply,   *)
(* each with its path, the idx of the tasks above it.                      *)
(***************************************************************************)
EXTENDS Integers, SequencesExt

CONSTANTS
    DiscardAt,      \* consumed bytes that start a discard: 1024
    TaskLimit       \* tasks in rstack: 9

ASSUME ReaderAssumption == DiscardAt \in Nat /\ TaskLimit \in Nat \ {0}

Digits == <<"0", "1", "2", "3", "4", "5", "6", "7", "8", "9">>

\* A task: the type read so far ("none" before it is), the elements of an array, and
\* its own place in the array above.
Task(idx) == [type |-> "none", elements |-> -1, idx |-> idx]

\* redisReaderCreate.  stack holds rstack[0..ridx].
redisReaderCreate == [buf |-> <<>>, pos |-> 0, stack |-> <<>>, obj |-> <<>>, err |-> FALSE]

redisReaderFeed(r, bytes) == IF r.err THEN r ELSE [r EXCEPT !.buf = @ \o bytes]

-----------------------------------------------------------------------------
Unread(r) == SubSeq(r.buf, r.pos + 1, Len(r.buf))

\* The first CR that an LF follows; 0 when there is none.
seekNewline(s) ==
    LET found == {i \in 1..(Len(s) - 1) : s[i] = "CR" /\ s[i + 1] = "LF"}
    IN  IF found = {} THEN 0 ELSE CHOOSE i \in found : \A j \in found : i <= j

\* The loop over the digits.
Decimal(digits) ==
    LET v[i \in 0..Len(digits)] ==
            IF i = 0 THEN 0 ELSE v[i - 1] * 10 + CHOOSE n \in 0..9 : Digits[n + 1] = digits[i]
    IN  v[Len(digits)]

\* The number a line holds; -1 when it holds none.
readLongLong(line) ==
    LET signed == line # <<>> /\ line[1] \in {"-", "+"}
        digits == IF signed THEN Tail(line) ELSE line
    IN  IF ~ ToSet(digits) \subseteq ToSet(Digits) THEN -1
        ELSE IF signed /\ line[1] = "-" THEN -Decimal(digits) ELSE Decimal(digits)

\* Mutant of moveToNextTask: it leaves one array when several are complete.
moveToNextTask_One(stack) ==
    IF Len(stack) = 1 THEN <<>>
    ELSE LET up == IF Last(stack).idx = stack[Len(stack) - 1].elements - 1
                   THEN Front(stack) ELSE stack
         IN  Append(Front(up), Task(Last(up).idx + 1))

\* The next element of the innermost array that is not complete.
moveToNextTask(stack) ==
    LET unfinished == {i \in 2..Len(stack) : stack[i].idx # stack[i - 1].elements - 1}
        i          == CHOOSE i \in unfinished : \A j \in unfinished : j <= i
    IN  IF unfinished = {} THEN <<>>
        ELSE Append(SubSeq(stack, 1, i - 1), Task(stack[i].idx + 1))

\* The object of the current task is created, from n bytes.
Create(r, value, n) ==
    [r EXCEPT !.obj = Append(@, [path |-> [i \in 1..(Len(r.stack) - 1) |-> r.stack[i + 1].idx],
                                 value |-> value]),
              !.pos = @ + n]

Complete(r, value, n) ==
    LET created == Create(r, value, n)
    IN  [created EXCEPT !.stack = moveToNextTask(@)]

processLineItem(r, type) ==
    LET at == seekNewline(Unread(r))
        s  == SubSeq(Unread(r), 1, at - 1)
    IN  IF at = 0 THEN r
        ELSE Complete(r, <<type>> \o (IF type = ":" THEN <<ToString(readLongLong(s))>> ELSE s),
                      at + 1)

\* A bulk string waits until it is there as a whole.
processBulkItem(r) ==
    LET at  == seekNewline(Unread(r))
        len == readLongLong(SubSeq(Unread(r), 1, at - 1))
    IN  IF at = 0 THEN r
        ELSE IF len < 0 THEN Complete(r, <<"nil">>, at + 1)
        ELSE IF at + 1 + len + 2 > Len(Unread(r)) THEN r
        ELSE Complete(r, <<"$">> \o SubSeq(Unread(r), at + 2, at + 1 + len), at + 1 + len + 2)

\* The depth is checked before the length is looked for.
processMultiBulkItem(r) ==
    LET at       == seekNewline(Unread(r))
        elements == readLongLong(SubSeq(Unread(r), 1, at - 1))
        array    == Create(r, <<"*", ToString(elements)>>, at + 1)
    IN  IF Len(r.stack) = TaskLimit THEN [r EXCEPT !.err = TRUE]
        ELSE IF at = 0 THEN r
        ELSE IF elements = -1 THEN Complete(r, <<"nil">>, at + 1)
        ELSE IF elements = 0 THEN Complete(r, <<"*", "0">>, at + 1)
        ELSE [array EXCEPT !.stack =
                 Append([@ EXCEPT ![Len(@)].elements = elements], Task(0))]

\* The type byte is consumed even if what follows is not there yet.
processItem(r) ==
    LET type == Last(r.stack).type
        next == r.buf[r.pos + 1]
    IN  CASE type = "none" /\ r.pos = Len(r.buf) -> r
          [] type = "none" /\ r.pos < Len(r.buf) ->
                IF next \in {"-", "+", ":", "$", "*"}
                THEN [r EXCEPT !.stack[Len(r.stack)].type = next, !.pos = @ + 1]
                ELSE [r EXCEPT !.err = TRUE, !.pos = @ + 1]
          [] type \in {"-", "+", ":"} -> processLineItem(r, type)
          [] type = "$" -> processBulkItem(r)
          [] type = "*" -> processMultiBulkItem(r)

Turn(r) == IF r.stack = <<>> \/ r.err THEN r ELSE processItem(r)

\* Items are processed until the reply is complete, the bytes end or an error
\* occurs.  A turn consumes a byte, or nothing changes after it.
Process(r) ==
    LET turns == Len(Unread(r)) + 1
        turn[n \in 0..turns] == IF n = 0 THEN r ELSE Turn(turn[n - 1])
    IN  turn[turns]

\* Mutant of Discard: pos goes back and the bytes stay.
Discard_KeepBytes(r) == IF r.pos >= DiscardAt THEN [r EXCEPT !.pos = 0] ELSE r

Discard(r) == IF r.pos >= DiscardAt THEN [r EXCEPT !.buf = Unread(r), !.pos = 0] ELSE r

\* *reply, when there is none.
NULL == <<>>

\* The reader and the reply after the items.
Reply(r) ==
    [reader |-> IF r.stack = <<>> THEN [r EXCEPT !.obj = <<>>] ELSE r,
     reply |-> IF r.stack = <<>> THEN r.obj ELSE NULL]

Processed(r) == IF r.err THEN [reader |-> r, reply |-> NULL] ELSE Reply(Discard(r))

redisReaderGetReply(r) ==
    IF r.err \/ r.buf = <<>> THEN [reader |-> r, reply |-> NULL]
    ELSE Processed(Process(IF r.stack = <<>> THEN [r EXCEPT !.stack = <<Task(-1)>>] ELSE r))
=============================================================================
