--------------------------- MODULE ClientSession ---------------------------
(***************************************************************************)
(* One client connection of the coordinator (coordinator.cpp,              *)
(* handle_new_client to send_result): the read callback, which parses what *)
(* has arrived and executes the commands, and the write callback, which    *)
(* sends the queued replies, run in different workers of the reactor.      *)
(* What a command does to the store is the subject of module Coordinator;  *)
(* here it has a reply.                                                    *)
(***************************************************************************)
EXTENDS CommandParser, SequencesExt

CONSTANT Streams    \* what a client may send over its connection, as tokens

ASSUME StreamsAssumption == Streams \subseteq Seq(Tokens)

VARIABLES
  stream,         \* what this client sends before it closes its side
  pos,            \* how much of it has been received
  pc,             \* "reading": an async_read is pending; "serving"; "ended"
  data,           \* prev_data and what was received since
  cmds,           \* the parsed commands that are still to be executed
  error,          \* how parsing ended
  is_connected,   \* is_connected_
  writes,         \* write_requests_: the replies to be sent
  executed,       \* history: the commands executed
  replies,        \* history: the reply given to each
  sent            \* history: what the client was sent

vars == <<stream, pos, pc, data, cmds, error, is_connected, writes, executed, replies, sent>>

Replies == {"result", "error"}

TypeOK ==
  /\ pos \in 0..Len(stream)
  /\ pc \in {"reading", "serving", "ended"}
  /\ IsSuffix(data, SubSeq(stream, 1, pos))
  /\ error \in {"none", "incomplete", "syntax"}
  /\ is_connected \in BOOLEAN
  /\ writes \in Seq(Replies) /\ sent \in Seq(Replies) /\ replies \in Seq(Replies)

\* handle_new_client
Init ==
  /\ stream \in Streams /\ pos = 0
  /\ pc = "reading" /\ data = <<>> /\ cmds = <<>> /\ error = "none"
  /\ is_connected = TRUE /\ writes = <<>>
  /\ executed = <<>> /\ replies = <<>> /\ sent = <<>>

\* disconnect(): the pending reads and writes are dropped.
Disconnected == is_connected' = FALSE /\ writes' = <<>>

\* send_result, send_error: async_write throws when there is no connection.
Reply(r) == IF is_connected THEN writes' = Append(writes, r) ELSE UNCHANGED writes

\* Mutant: what is left after the last complete command is not kept.
ReceiveForgets(n) ==
  /\ pc = "reading" /\ is_connected
  /\ pos + n <= Len(stream)
  /\ pos' = pos + n
  /\ LET got == SubSeq(stream, pos + 1, pos + n)
         all == ParseDbRequests(got)
     IN  /\ cmds' = all.cmds
         /\ error' = all.error
         /\ data' = SubSeq(got, all.parsed + 1, Len(got))
  /\ pc' = "serving"
  /\ UNCHANGED <<stream, is_connected, writes, executed, replies, sent>>

\* handle_db_requests with the next n tokens: they are put after what was left
\* over, everything is parsed, and what follows the last command is kept.
Receive(n) ==
  /\ pc = "reading" /\ is_connected
  /\ pos + n <= Len(stream)
  /\ pos' = pos + n
  /\ LET got == data \o SubSeq(stream, pos + 1, pos + n)
         all == ParseDbRequests(got)
     IN  /\ cmds' = all.cmds
         /\ error' = all.error
         /\ data' = SubSeq(got, all.parsed + 1, Len(got))
  /\ pc' = "serving"
  /\ UNCHANGED <<stream, is_connected, writes, executed, replies, sent>>

\* The peer closed: recv() returns 0, the read fails, the client disconnects.
ReceiveFails ==
  /\ pc = "reading" /\ is_connected
  /\ pos = Len(stream)
  /\ Disconnected
  /\ pc' = "ended"
  /\ UNCHANGED <<stream, pos, data, cmds, error, executed, replies, sent>>

\* The pending read was dropped by a disconnect in the write callback.
ReadDropped ==
  /\ pc = "reading" /\ ~is_connected
  /\ pc' = "ended"
  /\ UNCHANGED <<stream, pos, data, cmds, error, is_connected, writes, executed, replies, sent>>

\* One command: a result, or send_error() when the store cannot do it.  The
\* loop goes on with the next command in either case.
Execute(r) ==
  /\ pc = "serving" /\ cmds # <<>>
  /\ cmds' = Tail(cmds)
  /\ executed' = Append(executed, Head(cmds))
  /\ replies' = Append(replies, r)
  /\ Reply(r)
  /\ UNCHANGED <<stream, pos, pc, data, error, is_connected, sent>>

\* Mutant: a syntax error is not answered.
ServedSilently ==
  /\ pc = "serving" /\ cmds = <<>>
  /\ pc' = (IF is_connected /\ error # "syntax" THEN "reading" ELSE "ended")
  /\ UNCHANGED <<stream, pos, data, cmds, error, is_connected, writes, executed, replies, sent>>

\* All are executed: read on, keeping what is left; a syntax error is answered
\* and nothing more is read.
Served ==
  /\ pc = "serving" /\ cmds = <<>>
  /\ IF error = "syntax"
     THEN pc' = "ended" /\ Reply("error") /\ replies' = Append(replies, "error")
     ELSE pc' = (IF is_connected THEN "reading" ELSE "ended") /\ UNCHANGED <<writes, replies>>
  /\ UNCHANGED <<stream, pos, data, cmds, error, is_connected, executed, sent>>

\* Mutant: the last reply that was queued is sent first.
WriteLastFirst(ok) ==
  /\ is_connected /\ writes # <<>>
  /\ sent' = IF ok THEN Append(sent, Last(writes)) ELSE sent
  /\ IF ok /\ Last(writes) # "error"
     THEN writes' = Front(writes) /\ UNCHANGED is_connected
     ELSE Disconnected
  /\ UNCHANGED <<stream, pos, pc, data, cmds, error, executed, replies>>

\* The write callback sends one reply; after an error, or when the peer is
\* gone, it disconnects.
Write(ok) ==
  /\ is_connected /\ writes # <<>>
  /\ sent' = IF ok THEN Append(sent, Head(writes)) ELSE sent
  /\ IF ok /\ Head(writes) # "error"
     THEN writes' = Tail(writes) /\ UNCHANGED is_connected
     ELSE Disconnected
  /\ UNCHANGED <<stream, pos, pc, data, cmds, error, executed, replies>>

Next == \/ \E n \in 1..Len(stream) : Receive(n)
        \/ ReceiveFails
        \/ ReadDropped
        \/ \E r \in Replies : Execute(r)
        \/ Served
        \/ \E ok \in BOOLEAN : Write(ok)

\* The peer's bytes and its close arrive, and the workers run.
Fairness == WF_vars(Next)

Spec == Init /\ [][Next]_vars /\ Fairness

-----------------------------------------------------------------------------
(* Properties.                                                             *)

\* However TCP cuts the stream, the commands executed are those of the stream
\* read in one piece, in order; none is lost, repeated or put together from
\* parts of two when the connection lives until everything was read.
FramingIndependent ==
  LET all == ParseDbRequests(stream).cmds
  IN  /\ IsPrefix(executed, all)
      /\ (pc = "reading" /\ pos = Len(stream)) => executed = all

\* The client gets one reply per command in the order of its commands, and
\* nothing after an error.
RepliesInOrder ==
  /\ IsPrefix(sent, replies)
  /\ \A i \in 1..Len(sent) : sent[i] = "error" => i = Len(sent)
  /\ is_connected => replies = sent \o writes

\* What makes it inductive: a session that is still connected has sent no error
\* yet, so whatever the write callback sends next may follow what was sent.
SessionInv ==
  /\ writes \in Seq(Replies) /\ sent \in Seq(Replies) /\ replies \in Seq(Replies)
  /\ RepliesInOrder
  /\ is_connected => \A i \in 1..Len(sent) : sent[i] # "error"

\* What makes FramingIndependent inductive: what is kept is the stream from a
\* command's end on, where a parser of the whole stream comes by too, and what
\* that one reads from there is what is still missing.
FrameInv ==
  LET done == pos - Len(data)
      rest == ParseFrom(stream)[done + 1].cmds
  IN  /\ pos \in 0..Len(stream) /\ Len(data) <= pos /\ data = SubSeq(stream, done + 1, pos)
      /\ (executed \o cmds) \o rest = ParseDbRequests(stream).cmds
      /\ pos = Len(stream) \/ error = "syntax" => rest = <<>>
      /\ pc = "reading" => cmds = <<>>

\* A connection whose client has closed its side is closed here too, also
\* after a syntax error or an error reply.
SessionEnds == <>(pc = "ended" /\ ~is_connected)

\* The coordinator waits for more bytes ("Error caused by an incomplete
\* command") only when the command it has begun to read is incomplete: not
\* all elements its array header announces have arrived.
WaitsOnlyForIncomplete ==
  pc = "reading" /\ data # <<>> => data[1].kind = "array" /\ Len(data) <= data[1].num
=============================================================================
