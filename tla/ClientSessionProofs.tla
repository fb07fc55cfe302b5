------------------------ MODULE ClientSessionProofs ------------------------
(***************************************************************************)
(* For every stream a client may send and every way TCP may cut it: the    *)
(* replies of a session reach its client in the order of its commands (no  *)
(* step of that argument looks at what was parsed), and the commands that  *)
(* are executed are those of the stream read in one piece.                 *)
(*                                                                         *)
(* The second needs what the parser does, so the lemmas on read_command()  *)
(* and on the loop over it come first: a complete command reads the same   *)
(* in a part of the stream as in the whole.  The loop is a recursive       *)
(* function; that its equation has a solution, and what it then gives, is  *)
(* proved by choosing the least position that fails (LeastOf), since the   *)
(* loop only goes forward.                                                 *)
(***************************************************************************)
EXTENDS ClientSession, SequenceTheorems, WellFoundedInduction, TLAPS

\* A prefix has the elements of the longer sequence, position by position.
LEMMA PrefixByElement ==
  ASSUME NEW S, NEW s \in Seq(S), NEW t \in Seq(S)
  PROVE  IsPrefix(s, t) <=> Len(s) <= Len(t) /\ \A i \in 1..Len(s) : s[i] = t[i]
<1>1. SubSeq(s, 1, Len(s)) = s BY SubSeqFull
<1>2. ASSUME Len(s) <= Len(t)
      PROVE  /\ SubSeq(t, 1, Len(s)) \in Seq(S) /\ Len(SubSeq(t, 1, Len(s))) = Len(s)
             /\ \A i \in 1..Len(s) : SubSeq(t, 1, Len(s))[i] = t[i]
  BY <1>2
<1>3. ASSUME Len(s) <= Len(t), \A i \in 1..Len(s) : s[i] = t[i]
      PROVE  s = SubSeq(t, 1, Len(s))
  <2>1. /\ SubSeq(t, 1, Len(s)) \in Seq(S) /\ Len(SubSeq(t, 1, Len(s))) = Len(s)
        /\ \A i \in 1..Len(s) : SubSeq(t, 1, Len(s))[i] = s[i]
    BY <1>2, <1>3
  <2> QED BY <2>1, SeqEqual
<1> QED BY <1>1, <1>2, <1>3 DEF IsPrefix

\* One more reply keeps what was sent a prefix of the replies.
LEMMA PrefixOfLonger ==
  ASSUME NEW S, NEW s \in Seq(S), NEW t \in Seq(S), NEW e \in S, IsPrefix(s, t)
  PROVE  IsPrefix(s, Append(t, e))
<1>1. /\ Append(t, e) \in Seq(S) /\ Len(Append(t, e)) = Len(t) + 1
      /\ \A i \in 1..Len(t) : Append(t, e)[i] = t[i]
  BY AppendProperties
<1>2. Len(s) <= Len(t) /\ \A i \in 1..Len(s) : s[i] = t[i] BY PrefixByElement
<1>3. Len(s) \in Nat /\ Len(t) \in Nat OBVIOUS
<1>4. Len(s) <= Len(Append(t, e)) /\ \A i \in 1..Len(s) : s[i] = Append(t, e)[i]
  BY <1>1, <1>2, <1>3
<1> QED BY <1>1, <1>4, PrefixByElement, Zenon

\* A sequence is a prefix of what begins with it.
LEMMA PrefixOfConcat ==
  ASSUME NEW S, NEW s \in Seq(S), NEW t \in Seq(S)
  PROVE  IsPrefix(s, s \o t)
<1>1. /\ s \o t \in Seq(S) /\ Len(s \o t) = Len(s) + Len(t)
      /\ \A i \in 1..Len(s) : (s \o t)[i] = s[i]
  BY ConcatProperties
<1>2. Len(s) <= Len(s \o t) /\ \A i \in 1..Len(s) : s[i] = (s \o t)[i] BY <1>1
<1> QED BY <1>1, <1>2, PrefixByElement, Zenon

\* Taking the head of the queue to the end of what was sent leaves the whole.
LEMMA MoveHead ==
  ASSUME NEW S, NEW s \in Seq(S), NEW q \in Seq(S), q # <<>>
  PROVE  /\ Head(q) \in S /\ Tail(q) \in Seq(S)
         /\ Append(s, Head(q)) \o Tail(q) = s \o q
<1>1. Head(q) \in S /\ Tail(q) \in Seq(S) /\ q = <<Head(q)>> \o Tail(q) OBVIOUS
<1>2. Append(s, Head(q)) = s \o <<Head(q)>> BY <1>1, AppendIsConcat
<1>3. <<Head(q)>> \in Seq(S) BY <1>1
<1>4. (s \o <<Head(q)>>) \o Tail(q) = s \o (<<Head(q)>> \o Tail(q))
  BY <1>1, <1>3, ConcatAssociative
<1> QED BY <1>1, <1>2, <1>4

\* handle_new_client starts with nothing to send.
LEMMA SessionInit == Init => SessionInv
<1> SUFFICES ASSUME Init PROVE SessionInv OBVIOUS
<1>1. writes = <<>> /\ sent = <<>> /\ replies = <<>> BY DEF Init
<1>2. <<>> \in Seq(Replies) /\ Len(<<>>) = 0 OBVIOUS
<1>3. replies = sent \o writes BY <1>1, <1>2
<1>4. IsPrefix(sent, replies) BY <1>1, <1>2, <1>3, PrefixOfConcat
<1> QED BY <1>1, <1>2, <1>3, <1>4 DEF SessionInv, RepliesInOrder

\* A step that appends one reply r, queued when the connection is up.
LEMMA ReplyKeeps ==
  ASSUME SessionInv, NEW r \in Replies, Reply(r), replies' = Append(replies, r),
         UNCHANGED <<is_connected, sent>>
  PROVE  SessionInv'
<1>1. writes \in Seq(Replies) /\ sent \in Seq(Replies) /\ replies \in Seq(Replies)
  BY DEF SessionInv
<1>2. writes' \in Seq(Replies) /\ sent' \in Seq(Replies) /\ replies' \in Seq(Replies)
  <2>1. Append(writes, r) \in Seq(Replies) /\ Append(replies, r) \in Seq(Replies)
    BY <1>1, AppendProperties
  <2> QED BY <1>1, <2>1 DEF Reply
<1>3. IsPrefix(sent', replies')
  BY <1>1, PrefixOfLonger DEF SessionInv, RepliesInOrder
<1>4. ASSUME is_connected' PROVE replies' = sent' \o writes'
  <2>1. replies = sent \o writes /\ writes' = Append(writes, r)
    BY <1>4 DEF SessionInv, RepliesInOrder, Reply
  <2>2. Append(writes, r) = writes \o <<r>> /\ Append(replies, r) = replies \o <<r>>
    BY <1>1, AppendIsConcat
  <2>3. (sent \o writes) \o <<r>> = sent \o (writes \o <<r>>)
    BY <1>1, ConcatAssociative, SMTT(15)
  <2> QED BY <2>1, <2>2, <2>3
<1> QED BY <1>2, <1>3, <1>4 DEF SessionInv, RepliesInOrder

\* The write callback: what it sends is the oldest reply that is queued, and it
\* sends only as long as no error was sent.
LEMMA WriteKeeps ==
  ASSUME SessionInv, NEW ok \in BOOLEAN, Write(ok)
  PROVE  SessionInv'
<1> DEFINE r == Head(writes)
<1>1. /\ writes \in Seq(Replies) /\ sent \in Seq(Replies) /\ replies \in Seq(Replies)
      /\ is_connected /\ writes # <<>> /\ replies' = replies
      /\ replies = sent \o writes /\ \A i \in 1..Len(sent) : sent[i] # "error"
  BY DEF SessionInv, RepliesInOrder, Write
<1>2. r \in Replies /\ Tail(writes) \in Seq(Replies) /\ Append(sent, r) \o Tail(writes) = replies
  BY <1>1, MoveHead
<1>3. /\ Append(sent, r) \in Seq(Replies) /\ Len(Append(sent, r)) = Len(sent) + 1
      /\ \A i \in 1..Len(sent) : Append(sent, r)[i] = sent[i]
      /\ Append(sent, r)[Len(sent) + 1] = r
  BY <1>1, <1>2, AppendProperties
<1>4. IsPrefix(Append(sent, r), replies) /\ IsPrefix(sent, replies)
  BY <1>1, <1>2, <1>3, PrefixOfConcat
<1>5. Len(sent) \in Nat BY <1>1
<1>6. CASE ok /\ r # "error"
  <2>1. sent' = Append(sent, r) /\ writes' = Tail(writes) /\ is_connected' = is_connected
    BY <1>6 DEF Write
  <2>2. \A i \in 1..Len(sent') : sent'[i] # "error" BY <2>1, <1>1, <1>3, <1>5, <1>6
  <2> QED BY <2>1, <2>2, <1>1, <1>2, <1>3, <1>4 DEF SessionInv, RepliesInOrder
<1>7. CASE ok /\ r = "error"
  <2>1. sent' = Append(sent, r) /\ writes' = <<>> /\ ~is_connected'
    BY <1>7 DEF Write, Disconnected
  <2>2. \A i \in 1..Len(sent') : sent'[i] = "error" => i = Len(sent')
    BY <2>1, <1>1, <1>3, <1>5
  <2> QED BY <2>1, <2>2, <1>1, <1>3, <1>4 DEF SessionInv, RepliesInOrder
<1>8. CASE ~ok
  <2>1. sent' = sent /\ writes' = <<>> /\ ~is_connected' BY <1>8 DEF Write, Disconnected
  <2> QED BY <2>1, <1>1, <1>4 DEF SessionInv, RepliesInOrder
<1> QED BY <1>6, <1>7, <1>8

\* Every step keeps the invariant.
LEMMA SessionStep == SessionInv /\ [Next]_vars => SessionInv'
<1> SUFFICES ASSUME SessionInv, [Next]_vars PROVE SessionInv' OBVIOUS
<1>1. ASSUME UNCHANGED <<is_connected, writes, sent, replies>> PROVE SessionInv'
  BY <1>1 DEF SessionInv, RepliesInOrder
<1>2. ASSUME NEW n \in 1..Len(stream), Receive(n) PROVE SessionInv'
  BY <1>1, <1>2 DEF Receive
<1>3. CASE ReceiveFails
  <2>1. writes' = <<>> /\ ~is_connected' /\ sent' = sent /\ replies' = replies
    BY <1>3 DEF ReceiveFails, Disconnected
  <2> QED BY <2>1 DEF SessionInv, RepliesInOrder
<1>4. CASE ReadDropped BY <1>1, <1>4 DEF ReadDropped
<1>5. ASSUME NEW r \in Replies, Execute(r) PROVE SessionInv'
  BY <1>5, ReplyKeeps DEF Execute
<1>6. CASE Served
  <2>1. CASE error = "syntax"
    BY <1>6, <2>1, ReplyKeeps DEF Served, Replies
  <2>2. CASE error # "syntax" BY <1>1, <1>6, <2>2 DEF Served
  <2> QED BY <2>1, <2>2
<1>7. ASSUME NEW ok \in BOOLEAN, Write(ok) PROVE SessionInv' BY <1>7, WriteKeeps
<1>8. CASE UNCHANGED vars BY <1>1, <1>8 DEF vars
<1> QED BY <1>2, <1>3, <1>4, <1>5, <1>6, <1>7, <1>8 DEF Next

\* The inductive invariant of a session (async_write, do_write, disconnect).
THEOREM SessionInductive == Spec => []SessionInv
BY SessionInit, SessionStep, PTL DEF Spec

\* One reply per command in the order of the commands, and nothing after an
\* error, although the read and the write callback run in different workers.
THEOREM ReplyOrder == Spec => []RepliesInOrder
<1>1. SessionInv => RepliesInOrder BY DEF SessionInv
<1> QED BY <1>1, SessionInductive, PTL

-----------------------------------------------------------------------------
(* The parser.                                                             *)

(* A nonempty set of naturals has a least element. *)
LEMMA LeastOf ==
  ASSUME NEW T, T \subseteq Nat, T # {}
  PROVE  \E x \in T : \A y \in T : x <= y
<1>1. PICK x \in T : \A y \in T : ~(<<y, x>> \in OpToRel(<, Nat))
  BY NatLessThanWellFounded, WFMin
<1>2. \A y \in T : ~(y < x)
  BY <1>1 DEF OpToRel
<1> QED
  BY <1>2

(* At least one string is read after the type. *)
LEMMA StringsBound ==
  ASSUME NEW type, NEW num \in Nat
  PROVE  Strings(type, num) \in Nat /\ Strings(type, num) >= 1
<1> DEFINE least == IF type = "SET" THEN 2 ELSE 1
           S     == {num - 1, least}
<1>1. least \in Nat /\ least >= 1
  OBVIOUS
<1>2. \E x \in S : \A y \in S : x >= y
  BY <1>1
<1>3. Max(S) \in S /\ \A y \in S : Max(S) >= y
  BY <1>2 DEF Max
<1>4. Strings(type, num) = Max(S)
  BY DEF Strings
<1> QED
  BY <1>1, <1>3, <1>4

(* The first string that is missing or no bulk string decides. *)
LEMMA StringsRead ==
  ASSUME NEW text, Len(text) \in Nat, NEW K, K \subseteq Nat
  PROVE  /\ ReadStrings(text, K) \in {"ok", "incomplete", "syntax"}
         /\ ReadStrings(text, K) = "ok" <=> \A k \in K : k <= Len(text) /\ text[k].kind = "bulk"
         /\ ReadStrings(text, K) = "syntax" <=> \E k \in K : k <= Len(text) /\ text[k].kind # "bulk"
<1> DEFINE bad == {k \in K : k > Len(text) \/ (k <= Len(text) /\ text[k].kind # "bulk")}
<1>1. ReadStrings(text, K) = IF bad = {} THEN "ok" ELSE IF Min(bad) > Len(text) THEN "incomplete" ELSE "syntax"
  BY DEF ReadStrings
<1>2. CASE bad = {}
  BY <1>1, <1>2
<1>3. CASE bad # {}
  <2>1. \E x \in bad : \A y \in bad : x <= y
    BY <1>3, LeastOf
  <2>2. Min(bad) \in bad /\ \A y \in bad : Min(bad) <= y
    BY <2>1 DEF Min
  <2>3. Min(bad) \in Nat
    BY <2>2
  <2>4. CASE Min(bad) > Len(text)
    BY <1>1, <1>3, <2>2, <2>3, <2>4
  <2>5. CASE ~(Min(bad) > Len(text))
    BY <1>1, <1>3, <2>2, <2>3, <2>5
  <2> QED
    BY <2>4, <2>5
<1> QED
  BY <1>2, <1>3

\* The commands there are.
ParsedCommands == [type : Types, args : Seq(Tokens)]

\* The header at i announces a command that can be read, and ends there.
Ends(text, i) == i + 1 + Strings(text[i + 1].str, text[i].num)
Good(text, i) == /\ text[i].kind = "array" /\ i < Len(text)
                 /\ text[i + 1].kind = "bulk" /\ text[i + 1].str \in Types
                 /\ Enough(text[i + 1].str, text[i].num)
Argument(text, i) == ReadStrings(text, (i + 2)..Ends(text, i))

(* read_command() case by case. *)
LEMMA ReadCases ==
  ASSUME NEW text, Len(text) \in Nat, NEW i \in 1..Len(text)
  PROVE  /\ ReadCommand(text, i) =
              IF Good(text, i)
              THEN IF Argument(text, i) = "incomplete" THEN Incomplete
                   ELSE IF Argument(text, i) = "syntax" THEN Syntax
                   ELSE Command([type |-> text[i + 1].str, args |-> SubSeq(text, i + 2, Ends(text, i))],
                                Ends(text, i) + 1)
              ELSE IF i = Len(text) /\ text[i].kind = "array" THEN Incomplete ELSE Syntax
<1> DEFINE type == text[i + 1].str
           last == i + 1 + Strings(type, text[i].num)
           read == ReadStrings(text, (i + 2)..last)
<1>1. CASE text[i].kind # "array"
  BY <1>1 DEF ReadCommand, Good
<1>2. CASE i = Len(text) /\ text[i].kind = "array"
  BY <1>2 DEF ReadCommand, Good
<1>3. CASE i < Len(text) /\ text[i].kind = "array"
  BY <1>3 DEF ReadCommand, Good, Argument, Ends
<1> QED
  BY <1>1, <1>2, <1>3

(* A token's number is one. *)
LEMMA HeaderNumber ==
  ASSUME NEW text \in Seq(Tokens), NEW i \in 1..Len(text), text[i].kind = "array"
  PROVE  text[i].num \in Nat
<1>1. text[i] \in Tokens
  BY ElementOfSeq
<1> QED
  BY <1>1 DEF Tokens, Junk

(* What read_command() returns, and that it goes forward. *)
LEMMA ReadResult ==
  ASSUME NEW text \in Seq(Tokens), NEW i \in 1..Len(text), NEW r, r = ReadCommand(text, i)
  PROVE  /\ r.res \in {"incomplete", "syntax", "command"}
         /\ r.res = "command" => r.cmd \in ParsedCommands /\ r.next \in (i + 1)..(Len(text) + 1)
<1>0. Len(text) \in Nat
  BY LenProperties
<1>1. CASE Good(text, i) /\ Argument(text, i) = "ok"
  <2> DEFINE n == Ends(text, i)
  <2>1. n \in Nat /\ n >= i + 2
    <3>1. text[i].num \in Nat
      BY <1>1, HeaderNumber DEF Good
    <3> QED
      BY <3>1, StringsBound DEF Ends
  <2>2. \A k \in (i + 2)..n : k <= Len(text)
    BY <1>1, <2>1, StringsRead DEF Argument
  <2>3. n <= Len(text)
    BY <2>1, <2>2
  <2>4. SubSeq(text, i + 2, n) \in Seq(Tokens)
    BY <2>1, <2>3, SubSeqProperties
  <2>5. r = Command([type |-> text[i + 1].str, args |-> SubSeq(text, i + 2, n)], n + 1)
    BY <1>1, ReadCases, SMTT(15)
  <2>6. text[i + 1].str \in Types
    BY <1>1 DEF Good
  <2> HIDE DEF n
  <2> QED
    BY <2>1, <2>3, <2>4, <2>5, <2>6 DEF Command, ParsedCommands
<1>2. CASE ~(Good(text, i) /\ Argument(text, i) = "ok")
  <2>1. ASSUME Good(text, i) PROVE r \in {Incomplete, Syntax}
    <3>1. text[i].num \in Nat
      BY <2>1, HeaderNumber DEF Good
    <3>2. PICK K : K = (i + 2)..Ends(text, i)
      OBVIOUS
    <3>3. K \subseteq Nat
      BY <3>1, <3>2, StringsBound DEF Ends
    <3>4. ReadStrings(text, K) \in {"ok", "incomplete", "syntax"}
      BY <1>0, <3>3, StringsRead
    <3>5. Argument(text, i) \in {"incomplete", "syntax"}
      BY <1>2, <2>1, <3>2, <3>4 DEF Argument
    <3> QED
      BY <1>0, <2>1, <3>5, ReadCases
  <2>2. ASSUME ~Good(text, i) PROVE r \in {Incomplete, Syntax}
    BY <1>0, <2>2, ReadCases
  <2>3. r \in {Incomplete, Syntax}
    BY <2>1, <2>2
  <2> QED
    BY <2>3 DEF Incomplete, Syntax
<1> QED
  BY <1>1, <1>2

\* d is what s has after its first b tokens, up to some point.
PartOf(d, s, b) ==
  /\ d \in Seq(Tokens) /\ s \in Seq(Tokens) /\ b \in Nat /\ b + Len(d) <= Len(s)
  /\ \A k \in 1..Len(d) : d[k] = s[b + k]

(* The strings of a part. *)
LEMMA PartArguments ==
  ASSUME NEW d, NEW s, NEW b, PartOf(d, s, b), NEW i \in 1..Len(d), Good(d, i)
  PROVE  /\ Good(s, b + i) /\ Ends(s, b + i) = b + Ends(d, i) /\ Ends(d, i) \in Nat /\ Ends(d, i) >= i + 2
         /\ Argument(d, i) \in {"ok", "incomplete", "syntax"}
         /\ Argument(d, i) \in {"ok", "syntax"} => Argument(s, b + i) = Argument(d, i)
         /\ b + Len(d) = Len(s) => Argument(s, b + i) = Argument(d, i)
<1>1. Len(d) \in Nat /\ Len(s) \in Nat /\ b \in Nat /\ b + Len(d) <= Len(s) /\ b + i \in 1..Len(s) /\ i \in Nat
      /\ b + i + 1 = b + (i + 1) /\ i + 1 \in 1..Len(d)
  BY DEF PartOf, Good
<1>2. d[i] = s[b + i] /\ d[i + 1] = s[b + i + 1]
  BY <1>1 DEF PartOf
<1>3. Good(s, b + i)
  BY <1>1, <1>2 DEF Good
<1>4. d[i].num \in Nat
  BY HeaderNumber DEF Good, PartOf
<1>5. Strings(d[i + 1].str, d[i].num) \in Nat /\ Strings(d[i + 1].str, d[i].num) >= 1
  BY <1>4, StringsBound
<1>6. PICK n \in Nat : n = Ends(d, i) /\ n >= i + 2
  BY <1>1, <1>5 DEF Ends
<1>7. Ends(s, b + i) = b + n
  <2>1. Ends(s, b + i) = b + i + 1 + Strings(d[i + 1].str, d[i].num)
    BY <1>2 DEF Ends
  <2>2. n = i + 1 + Strings(d[i + 1].str, d[i].num)
    BY <1>6 DEF Ends
  <2> QED
    BY <1>1, <1>5, <2>1, <2>2
<1>8. PICK K, M : K = (i + 2)..n /\ M = (b + i + 2)..(b + n)
  OBVIOUS
<1>9. /\ K \subseteq Nat /\ M \subseteq Nat
      /\ \A k \in K : b + k \in M
      /\ \A m \in M : m - b \in K /\ b + (m - b) = m
  BY <1>1, <1>6, <1>8
<1>10. Argument(d, i) = ReadStrings(d, K) /\ Argument(s, b + i) = ReadStrings(s, M)
  BY <1>6, <1>7, <1>8 DEF Argument
<1>11. /\ ReadStrings(d, K) \in {"ok", "incomplete", "syntax"}
       /\ ReadStrings(d, K) = "ok" <=> \A k \in K : k <= Len(d) /\ d[k].kind = "bulk"
       /\ ReadStrings(d, K) = "syntax" <=> \E k \in K : k <= Len(d) /\ d[k].kind # "bulk"
  BY <1>1, <1>9, StringsRead
<1>12. /\ ReadStrings(s, M) \in {"ok", "incomplete", "syntax"}
       /\ ReadStrings(s, M) = "ok" <=> \A k \in M : k <= Len(s) /\ s[k].kind = "bulk"
       /\ ReadStrings(s, M) = "syntax" <=> \E k \in M : k <= Len(s) /\ s[k].kind # "bulk"
  BY <1>1, <1>9, StringsRead
<1>13. \A k \in K : k <= Len(d) => s[b + k] = d[k] /\ b + k <= Len(s)
  BY <1>1, <1>6, <1>8 DEF PartOf
<1>14. CASE ReadStrings(d, K) = "ok"
  <2>1. \A m \in M : m <= Len(s) /\ s[m].kind = "bulk"
    <3> SUFFICES ASSUME NEW m \in M PROVE m <= Len(s) /\ s[m].kind = "bulk"
      OBVIOUS
    <3>1. m - b \in K /\ b + (m - b) = m
      BY <1>9
    <3>2. m - b <= Len(d) /\ d[m - b].kind = "bulk"
      BY <1>11, <1>14, <3>1
    <3>3. s[b + (m - b)] = d[m - b] /\ b + (m - b) <= Len(s)
      BY <1>13, <3>1, <3>2
    <3> QED
      BY <3>1, <3>2, <3>3
  <2> QED
    BY <1>3, <1>6, <1>7, <1>10, <1>12, <1>14, <2>1
<1>15. CASE ReadStrings(d, K) = "syntax"
  <2>1. \E m \in M : m <= Len(s) /\ s[m].kind # "bulk"
    BY <1>9, <1>11, <1>13, <1>15
  <2> QED
    BY <1>3, <1>6, <1>7, <1>10, <1>12, <1>15, <2>1
<1>16. CASE ReadStrings(d, K) = "incomplete"
  <2>1. (\A k \in K : k <= Len(d) => d[k].kind = "bulk") /\ \E k \in K : ~(k <= Len(d))
    BY <1>11, <1>16
  <2>2. ASSUME b + Len(d) = Len(s) PROVE ReadStrings(s, M) = "incomplete"
    <3>1. \A m \in M : m <= Len(s) => s[m].kind = "bulk"
      <4> SUFFICES ASSUME NEW m \in M, m <= Len(s) PROVE s[m].kind = "bulk"
        OBVIOUS
      <4>1. m - b \in K /\ m - b <= Len(d) /\ b + (m - b) = m
        BY <1>1, <1>9, <2>2
      <4> QED
        BY <1>13, <2>1, <4>1
    <3>2. \E m \in M : ~(m <= Len(s))
      BY <1>1, <1>9, <2>1, <2>2
    <3> QED
      BY <1>12, <3>1, <3>2
  <2> QED
    BY <1>3, <1>6, <1>7, <1>10, <1>16, <2>2
<1> QED
  BY <1>11, <1>14, <1>15, <1>16

(* A command that has arrived completely is read in a part as in the whole *)
(* stream; so is what is no command, and at the stream's end the rest.     *)
LEMMA ReadPart ==
  ASSUME NEW d, NEW s, NEW b, PartOf(d, s, b), NEW i \in 1..Len(d), NEW r, r = ReadCommand(d, i),
         NEW q, q = ReadCommand(s, b + i)
  PROVE  /\ r.res = "command" => q.res = "command" /\ q.cmd = r.cmd /\ q.next = b + r.next
         /\ r.res = "syntax" => q.res = "syntax"
         /\ b + Len(d) = Len(s) => q.res = r.res
<1>1. Len(d) \in Nat /\ Len(s) \in Nat /\ b \in Nat /\ b + Len(d) <= Len(s) /\ b + i \in 1..Len(s) /\ i \in Nat
  BY DEF PartOf
<1>2. d[i] = s[b + i]
  BY DEF PartOf
<1>3. CASE Good(d, i)
  <2> DEFINE n == Ends(d, i)
             u == Argument(d, i)
             v == Argument(s, b + i)
  <2>1. /\ Good(s, b + i) /\ Ends(s, b + i) = b + n /\ n \in Nat /\ n >= i + 2
        /\ u \in {"ok", "incomplete", "syntax"} /\ (u \in {"ok", "syntax"} => v = u)
        /\ (b + Len(d) = Len(s) => v = u)
    BY <1>3, PartArguments
  <2>2. r = IF u = "incomplete" THEN Incomplete ELSE IF u = "syntax" THEN Syntax
            ELSE Command([type |-> d[i + 1].str, args |-> SubSeq(d, i + 2, n)], n + 1)
    BY <1>1, <1>3, ReadCases
  <2>3. q = IF v = "incomplete" THEN Incomplete ELSE IF v = "syntax" THEN Syntax
            ELSE Command([type |-> s[b + i + 1].str, args |-> SubSeq(s, b + i + 2, b + n)], b + n + 1)
    BY <1>1, <2>1, ReadCases
  <2> HIDE DEF u, v
  <2>4. CASE u = "ok"
    <3>1. s[b + i + 1] = d[i + 1]
      <4>1. i + 1 \in 1..Len(d) /\ b + i + 1 = b + (i + 1)
        BY <1>1, <1>3 DEF Good
      <4> QED
        BY <4>1 DEF PartOf
    <3>2. n <= Len(d)
      <4>1. \A k \in (i + 2)..n : k <= Len(d)
        BY <1>1, <2>1, <2>4, StringsRead DEF u, Argument
      <4> QED
        BY <1>1, <2>1, <4>1
    <3>3. SubSeq(s, b + i + 2, b + n) = SubSeq(d, i + 2, n)
      <4>1. /\ SubSeq(d, i + 2, n) \in Seq(Tokens) /\ Len(SubSeq(d, i + 2, n)) = n - i - 1
            /\ \A k \in 1..(n - i - 1) : SubSeq(d, i + 2, n)[k] = d[i + 1 + k]
        BY <1>1, <2>1, <3>2, SMTT(15) DEF PartOf
      <4>2. /\ SubSeq(s, b + i + 2, b + n) \in Seq(Tokens) /\ Len(SubSeq(s, b + i + 2, b + n)) = n - i - 1
            /\ \A k \in 1..(n - i - 1) : SubSeq(s, b + i + 2, b + n)[k] = s[b + i + 1 + k]
        BY <1>1, <2>1, <3>2, SMTT(15) DEF PartOf
      <4>3. \A k \in 1..(n - i - 1) : d[i + 1 + k] = s[b + i + 1 + k]
        <5> SUFFICES ASSUME NEW k \in 1..(n - i - 1) PROVE d[i + 1 + k] = s[b + i + 1 + k]
          OBVIOUS
        <5>1. i + 1 + k \in 1..Len(d) /\ b + (i + 1 + k) = b + i + 1 + k
          BY <1>1, <2>1, <3>2
        <5> QED
          BY <5>1 DEF PartOf
      <4> QED
        BY <4>1, <4>2, <4>3, SeqEqual
    <3> HIDE DEF n
    <3>4. b + n + 1 = b + (n + 1)
      BY <1>1, <2>1
    <3>5. PICK c : c = [type |-> d[i + 1].str, args |-> SubSeq(d, i + 2, n)]
      OBVIOUS
    <3>6. r = Command(c, n + 1)
      BY <2>2, <2>4, <3>5
    <3>7. q = Command(c, b + (n + 1))
      BY <2>1, <2>3, <2>4, <3>1, <3>3, <3>4, <3>5
    <3> QED
      BY <3>6, <3>7 DEF Command
  <2>5. CASE u = "syntax"
    BY <2>1, <2>2, <2>3, <2>5 DEF Syntax
  <2>6. CASE u = "incomplete"
    BY <2>1, <2>2, <2>3, <2>6 DEF Incomplete
  <2> QED
    BY <2>1, <2>4, <2>5, <2>6
<1>4. CASE ~Good(d, i)
  <2>1. r = IF i = Len(d) /\ d[i].kind = "array" THEN Incomplete ELSE Syntax
    BY <1>1, <1>4, ReadCases
  <2>2. CASE i = Len(d) /\ d[i].kind = "array"
    <3>1. r.res = "incomplete"
      BY <2>1, <2>2 DEF Incomplete
    <3>2. ASSUME b + Len(d) = Len(s) PROVE q = Incomplete
      <4>1. ~Good(s, b + i) /\ b + i = Len(s) /\ s[b + i].kind = "array"
        BY <1>1, <1>2, <2>2, <3>2 DEF Good
      <4> QED
        BY <1>1, <4>1, ReadCases
    <3> QED
      BY <3>1, <3>2 DEF Incomplete
  <2>3. CASE ~(i = Len(d) /\ d[i].kind = "array")
    <3>1. r.res = "syntax"
      BY <2>1, <2>3 DEF Syntax
    <3>2. ~Good(s, b + i) /\ ~(b + i = Len(s) /\ s[b + i].kind = "array")
      <4>1. CASE d[i].kind # "array"
        BY <1>2, <4>1 DEF Good
      <4>2. CASE d[i].kind = "array"
        <5>1. i + 1 \in 1..Len(d) /\ b + i + 1 = b + (i + 1) /\ b + i < Len(s)
          BY <1>1, <2>3, <4>2
        <5>2. s[b + i + 1] = d[i + 1]
          BY <5>1 DEF PartOf
        <5> QED
          BY <1>1, <1>2, <1>4, <5>1, <5>2 DEF Good
      <4> QED
        BY <4>1, <4>2
    <3>3. q = Syntax
      BY <1>1, <3>2, ReadCases
    <3> QED
      BY <3>1, <3>3 DEF Syntax
  <2> QED
    BY <2>2, <2>3
<1> QED
  BY <1>3, <1>4

-----------------------------------------------------------------------------
(* The loop over the parser.  It is a recursive function: the equation it  *)
(* is defined by has a solution, because the loop only goes forward.       *)

\* One pass of the loop at i, when g says what the passes after it give.
Pass(text, g, i) ==
  IF i = Len(text) + 1 THEN [cmds |-> <<>>, parsed |-> Len(text), error |-> "none"]
  ELSE LET r == ReadCommand(text, i)
       IN  IF r.res = "command" THEN [g[r.next] EXCEPT !.cmds = <<r.cmd>> \o @]
           ELSE [cmds |-> <<>>, parsed |-> i - 1, error |-> r.res]

(* A pass looks at later ones only. *)
LEMMA PassLooksAhead ==
  ASSUME NEW text \in Seq(Tokens), NEW g, NEW h, NEW i \in 1..(Len(text) + 1),
         \A k \in 1..(Len(text) + 1) : k > i => g[k] = h[k]
  PROVE  Pass(text, g, i) = Pass(text, h, i)
<1>1. Len(text) \in Nat
  BY LenProperties
<1>2. CASE i = Len(text) + 1
  BY <1>2 DEF Pass
<1>3. CASE i # Len(text) + 1
  <2>1. i \in 1..Len(text)
    BY <1>1, <1>3
  <2>2. PICK r : r = ReadCommand(text, i)
    OBVIOUS
  <2>3. r.res = "command" => r.next \in (i + 1)..(Len(text) + 1)
    BY <2>1, <2>2, ReadResult
  <2>4. r.res = "command" => g[r.next] = h[r.next]
    BY <1>1, <2>1, <2>3
  <2>5. ASSUME NEW f
        PROVE  Pass(text, f, i) = IF r.res = "command" THEN [f[r.next] EXCEPT !.cmds = <<r.cmd>> \o @]
                                  ELSE [cmds |-> <<>>, parsed |-> i - 1, error |-> r.res]
    BY <1>3, <2>2 DEF Pass
  <2> QED
    BY <2>4, <2>5
<1> QED
  BY <1>2, <1>3

(* The equation has a solution. *)
LEMMA ParseExists ==
  ASSUME NEW text \in Seq(Tokens)
  PROVE  \E g : g = [i \in 1..(Len(text) + 1) |-> Pass(text, g, i)]
<1> DEFINE L == Len(text)
           D == 1..(L + 1)
           Solves(g, n) == /\ g = [i \in D |-> g[i]]
                           /\ \A i \in D : i + n > L => g[i] = Pass(text, g, i)
           T == {n \in 0..L : ~\E g : Solves(g, n)}
<1>1. L \in Nat
  BY LenProperties
<1>2. T = {}
  <2> SUFFICES ASSUME T # {} PROVE FALSE
    OBVIOUS
  <2>0. T \subseteq 0..L /\ T \subseteq Nat
    BY <1>1
  <2>1. PICK m \in T : \A n \in T : m <= n
    <3> HIDE DEF T
    <3> QED
      BY <2>0, LeastOf
  <2>2. m \in 0..L
    BY <2>0
  <2>3. CASE m = 0
    <3> DEFINE g == [i \in D |-> [cmds |-> <<>>, parsed |-> L, error |-> "none"]]
    <3>1. \A i \in D : i + m > L => i = L + 1
      BY <1>1, <2>3
    <3>2. \A i \in D : i + m > L => g[i] = Pass(text, g, i)
      BY <3>1 DEF Pass
    <3>3. Solves(g, m)
      BY <3>2
    <3> QED
      BY <3>3
  <2>4. CASE m # 0
    <3>1. m - 1 \in 0..L /\ m - 1 \notin T
      <4> HIDE DEF T
      <4> QED
        BY <1>1, <2>1, <2>2, <2>4
    <3>2. PICK g : Solves(g, m - 1)
      BY <3>1
    <3> DEFINE j == L + 1 - m
               h == [g EXCEPT ![j] = Pass(text, g, j)]
    <3>3. j \in D /\ m \in Nat /\ j \in Nat
      BY <1>1, <2>2, <2>4
    <3>4. /\ h = [i \in D |-> h[i]] /\ h[j] = Pass(text, g, j)
          /\ \A i \in D : i # j => h[i] = g[i]
      BY <3>2, <3>3
    <3> HIDE DEF h
    <3>5. ASSUME NEW i \in D, i + m > L PROVE h[i] = Pass(text, h, i)
      <4>1. i \in Nat /\ i >= j
        BY <1>1, <3>3, <3>5
      <4>2. \A k \in D : k > i => g[k] = h[k]
        BY <1>1, <3>3, <3>4, <4>1
      <4>3. Pass(text, g, i) = Pass(text, h, i)
        BY <4>2, PassLooksAhead
      <4>4. CASE i = j
        BY <3>4, <4>3, <4>4
      <4>5. CASE i # j
        <5>1. i + (m - 1) > L
          BY <1>1, <3>3, <4>1, <4>5
        <5>2. g[i] = Pass(text, g, i)
          BY <3>2, <5>1
        <5> QED
          BY <3>4, <4>3, <4>5, <5>2
      <4> QED
        BY <4>4, <4>5
    <3>6. Solves(h, m)
      BY <3>4, <3>5
    <3> QED
      BY <3>6
  <2> QED
    BY <2>3, <2>4
<1>3. PICK g : Solves(g, L)
  BY <1>1, <1>2
<1>4. \A i \in D : i + L > L
  BY <1>1
<1>5. g = [i \in D |-> g[i]] /\ \A i \in D : g[i] = Pass(text, g, i)
  BY <1>3, <1>4
<1>6. g = [i \in D |-> Pass(text, g, i)]
  BY <1>5
<1> QED
  BY <1>6

(* What ParseFrom() is at a position. *)
LEMMA ParseAt ==
  ASSUME NEW text \in Seq(Tokens), NEW i \in 1..(Len(text) + 1)
  PROVE  ParseFrom(text)[i] = Pass(text, ParseFrom(text), i)
<1> DEFINE h == CHOOSE h : h = [k \in 1..(Len(text) + 1) |-> Pass(text, h, k)]
<1>1. ParseFrom(text) = h
  BY DEF ParseFrom, Pass
<1>2. h = [k \in 1..(Len(text) + 1) |-> Pass(text, h, k)]
  BY ParseExists
<1> HIDE DEF h
<1>3. h[i] = Pass(text, h, i)
  BY <1>2
<1> QED
  BY <1>1, <1>3

(* What holds at a position when it holds at all later ones holds at all.  *)
LEMMA Downward ==
  ASSUME NEW L \in Nat, NEW G,
         \A i \in 1..(L + 1) : (\A k \in (i + 1)..(L + 1) : k \in G) => i \in G
  PROVE  \A i \in 1..(L + 1) : i \in G
<1> DEFINE T == {n \in 0..L : L + 1 - n \notin G}
<1>1. T \subseteq 0..L /\ T \subseteq Nat
  OBVIOUS
<1>2. T = {}
  <2> SUFFICES ASSUME T # {} PROVE FALSE
    OBVIOUS
  <2>1. PICK m \in T : \A n \in T : m <= n
    <3> HIDE DEF T
    <3> QED
      BY <1>1, LeastOf
  <2>2. m \in 0..L /\ L + 1 - m \in 1..(L + 1) /\ L + 1 - m \notin G
    OBVIOUS
  <2>3. ASSUME NEW k \in (L + 1 - m + 1)..(L + 1) PROVE k \in G
    <3>1. L + 1 - k \in 0..L /\ L + 1 - k < m /\ L + 1 - (L + 1 - k) = k
      BY <2>2
    <3>2. L + 1 - k \notin T
      <4> HIDE DEF T
      <4> QED
        BY <2>1, <2>2, <3>1
    <3> QED
      BY <3>1, <3>2
  <2> QED
    BY <2>2, <2>3
<1>3. ASSUME NEW i \in 1..(L + 1) PROVE i \in G
  <2>1. L + 1 - i \in 0..L /\ L + 1 - (L + 1 - i) = i
    OBVIOUS
  <2> QED
    BY <1>2, <2>1
<1> QED
  BY <1>3

\* What the loop gives from the position i on.
Outcome(text, i) ==
  [cmds : Seq(ParsedCommands), parsed : (i - 1)..Len(text), error : {"none", "incomplete", "syntax"}]

\* A pass that reads the command c before the passes p, and one that reads none.
Before(c, p) == [p EXCEPT !.cmds = <<c>> \o @]
Stops(i, e)  == [cmds |-> <<>>, parsed |-> i - 1, error |-> e]

(* The loop, pass by pass. *)
LEMMA ParsePass ==
  ASSUME NEW text \in Seq(Tokens), NEW i \in 1..Len(text), NEW r, r = ReadCommand(text, i)
  PROVE  /\ r.res = "command" => ParseFrom(text)[i] = Before(r.cmd, ParseFrom(text)[r.next])
         /\ r.res # "command" => ParseFrom(text)[i] = Stops(i, r.res)
<1>1. Len(text) \in Nat /\ i \in 1..(Len(text) + 1) /\ i # Len(text) + 1
  BY LenProperties
<1>2. PICK g : g = ParseFrom(text)
  OBVIOUS
<1>3. g[i] = Pass(text, g, i)
  BY <1>1, <1>2, ParseAt
<1> QED
  BY <1>1, <1>2, <1>3 DEF Pass, Before, Stops

(* Behind the last token it ends without an error. *)
LEMMA ParseEnd ==
  ASSUME NEW text \in Seq(Tokens)
  PROVE  ParseFrom(text)[Len(text) + 1] = [cmds |-> <<>>, parsed |-> Len(text), error |-> "none"]
<1>1. Len(text) \in Nat /\ Len(text) + 1 \in 1..(Len(text) + 1)
  BY LenProperties
<1>2. PICK g : g = ParseFrom(text)
  OBVIOUS
<1>3. g[Len(text) + 1] = Pass(text, g, Len(text) + 1)
  BY <1>1, <1>2, ParseAt
<1> QED
  BY <1>2, <1>3 DEF Pass

(* The loop gives commands, stops inside the text and says why. *)
LEMMA ParseType ==
  ASSUME NEW text \in Seq(Tokens)
  PROVE  \A i \in 1..(Len(text) + 1) : ParseFrom(text)[i] \in Outcome(text, i)
<1> DEFINE G == {i \in 1..(Len(text) + 1) : ParseFrom(text)[i] \in Outcome(text, i)}
<1>1. Len(text) \in Nat
  BY LenProperties
<1>2. ASSUME NEW i \in 1..(Len(text) + 1), \A k \in (i + 1)..(Len(text) + 1) : k \in G
      PROVE  ParseFrom(text)[i] \in Outcome(text, i)
  <2>1. <<>> \in Seq(ParsedCommands)
    OBVIOUS
  <2>2. CASE i = Len(text) + 1
    <3>1. ParseFrom(text)[i] = [cmds |-> <<>>, parsed |-> Len(text), error |-> "none"]
      BY <2>2, ParseEnd
    <3> QED
      BY <1>1, <2>1, <2>2, <3>1 DEF Outcome
  <2>3. CASE i # Len(text) + 1
    <3>1. i \in 1..Len(text)
      BY <1>1, <2>3
    <3>2. PICK r : r = ReadCommand(text, i)
      OBVIOUS
    <3>3. /\ r.res \in {"incomplete", "syntax", "command"}
          /\ r.res = "command" => r.cmd \in ParsedCommands /\ r.next \in (i + 1)..(Len(text) + 1)
      BY <3>1, <3>2, ReadResult
    <3>4. CASE r.res = "command"
      <4>1. PICK p : p = ParseFrom(text)[r.next]
        OBVIOUS
      <4>2. p \in Outcome(text, r.next)
        BY <1>2, <3>3, <3>4, <4>1
      <4>3. p.cmds \in Seq(ParsedCommands) /\ p.parsed \in (i - 1)..Len(text) /\ p.error \in {"none", "incomplete", "syntax"}
        BY <1>1, <3>1, <3>3, <3>4, <4>2 DEF Outcome
      <4>4. <<r.cmd>> \o p.cmds \in Seq(ParsedCommands)
        BY <3>3, <3>4, <4>3
      <4>5. ParseFrom(text)[i] = Before(r.cmd, p)
        BY <3>1, <3>2, <3>4, <4>1, ParsePass
      <4>6. Before(r.cmd, p) = [cmds |-> <<r.cmd>> \o p.cmds, parsed |-> p.parsed, error |-> p.error]
        <5>1. PICK c : c = <<r.cmd>> \o p.cmds
          OBVIOUS
        <5>2. [p EXCEPT !.cmds = c] = [cmds |-> c, parsed |-> p.parsed, error |-> p.error]
          BY <4>2 DEF Outcome
        <5> QED
          BY <5>1, <5>2 DEF Before
      <4> QED
        BY <4>3, <4>4, <4>5, <4>6 DEF Outcome
    <3>5. CASE r.res # "command"
      <4>1. ParseFrom(text)[i] = Stops(i, r.res)
        BY <3>1, <3>2, <3>5, ParsePass
      <4> QED
        BY <1>1, <2>1, <3>1, <3>3, <3>5, <4>1 DEF Outcome, Stops
    <3> QED
      BY <3>4, <3>5
  <2> QED
    BY <2>2, <2>3
<1>3. \A i \in 1..(Len(text) + 1) : (\A k \in (i + 1)..(Len(text) + 1) : k \in G) => i \in G
  BY <1>2
<1>4. \A i \in 1..(Len(text) + 1) : i \in G
  <2> HIDE DEF G
  <2> QED
    BY <1>1, <1>3, Downward
<1> QED
  BY <1>4


(* What a command adds to the passes after it. *)
LEMMA ParseCommand ==
  ASSUME NEW text \in Seq(Tokens), NEW i \in 1..Len(text), NEW r, r = ReadCommand(text, i), r.res = "command"
  PROVE  /\ ParseFrom(text)[i].cmds = <<r.cmd>> \o ParseFrom(text)[r.next].cmds
         /\ ParseFrom(text)[i].parsed = ParseFrom(text)[r.next].parsed
         /\ ParseFrom(text)[i].error = ParseFrom(text)[r.next].error
<1>1. PICK p : p = ParseFrom(text)[r.next]
  OBVIOUS
<1>2. r.next \in 1..(Len(text) + 1)
  <2>1. r.next \in (i + 1)..(Len(text) + 1)
    BY ReadResult
  <2>2. Len(text) \in Nat
    BY LenProperties
  <2> QED
    BY <2>1, <2>2
<1>3. p \in Outcome(text, r.next)
  BY <1>1, <1>2, ParseType
<1>4. ParseFrom(text)[i] = Before(r.cmd, p)
  BY <1>1, ParsePass
<1>5. PICK c : c = <<r.cmd>> \o p.cmds
  OBVIOUS
<1>6. [p EXCEPT !.cmds = c] = [cmds |-> c, parsed |-> p.parsed, error |-> p.error]
  BY <1>3 DEF Outcome
<1>7. Before(r.cmd, p) = [cmds |-> c, parsed |-> p.parsed, error |-> p.error]
  BY <1>5, <1>6 DEF Before
<1> QED
  BY <1>1, <1>4, <1>5, <1>7

(* The fields of what the loop gives. *)
LEMMA ParseFields ==
  ASSUME NEW text \in Seq(Tokens), NEW i \in 1..(Len(text) + 1)
  PROVE  /\ ParseFrom(text)[i].cmds \in Seq(ParsedCommands)
         /\ ParseFrom(text)[i].parsed \in 0..Len(text)
         /\ ParseFrom(text)[i].error \in {"none", "incomplete", "syntax"}
<1>1. Len(text) \in Nat
  BY LenProperties
<1>2. PICK p : p = ParseFrom(text)[i]
  OBVIOUS
<1>3. p \in Outcome(text, i)
  BY <1>2, ParseType
<1>4. p.parsed \in (i - 1)..Len(text)
  BY <1>3 DEF Outcome
<1> QED
  BY <1>1, <1>2, <1>3, <1>4 DEF Outcome

\* Commands put together in either order.
Regroups(u, v, w) == (u \o v) \o w = u \o (v \o w)

(* They are the same commands. *)
LEMMA Regrouped ==
  ASSUME NEW u \in Seq(ParsedCommands), NEW v \in Seq(ParsedCommands), NEW w \in Seq(ParsedCommands)
  PROVE  Regroups(u, v, w) /\ v \o w \in Seq(ParsedCommands)
<1>1. (u \o v) \o w = u \o (v \o w)
  BY ConcatAssociative
<1>2. v \o w \in Seq(ParsedCommands)
  BY ConcatProperties
<1> QED
  BY <1>1, <1>2 DEF Regroups

\* The loop over the part d of s that begins after b tokens, entered at its
\* position i, and the loop over s from the same place: the latter finds the
\* commands of the former and goes on where that stopped, finding nothing more
\* after a syntax error or at the end of s.
Frames(d, s, b, i) ==
  LET part == ParseFrom(d)[i]
      rest == ParseFrom(s)[b + part.parsed + 1].cmds
  IN  /\ ParseFrom(s)[b + i].cmds = part.cmds \o rest
      /\ part.error = "syntax" \/ b + Len(d) = Len(s) => rest = <<>>

(* Parsing a part of the stream and then the rest, or everything at once.  *)
LEMMA Framing ==
  ASSUME NEW d, NEW s, NEW b, PartOf(d, s, b)
  PROVE  \A i \in 1..(Len(d) + 1) : Frames(d, s, b, i)
<1> DEFINE G == {i \in 1..(Len(d) + 1) : Frames(d, s, b, i)}
<1>1. /\ d \in Seq(Tokens) /\ s \in Seq(Tokens) /\ b \in Nat
      /\ Len(d) \in Nat /\ Len(s) \in Nat /\ b + Len(d) <= Len(s)
  BY LenProperties DEF PartOf
<1>2. ASSUME NEW i \in 1..(Len(d) + 1), \A k \in (i + 1)..(Len(d) + 1) : k \in G
      PROVE  Frames(d, s, b, i)
  <2>1. PICK part, whole : part = ParseFrom(d)[i] /\ whole = ParseFrom(s)[b + i]
    OBVIOUS
  <2>2. b + i \in 1..(Len(s) + 1)
    BY <1>1
  <2>3. whole.cmds \in Seq(ParsedCommands)
    BY <1>1, <2>1, <2>2, ParseFields
  <2>4. <<>> \o whole.cmds = whole.cmds
    BY <2>3
  <2>5. CASE i = Len(d) + 1
    <3>1. part.cmds = <<>> /\ part.parsed = Len(d) /\ part.error = "none"
      <4>1. part = [cmds |-> <<>>, parsed |-> Len(d), error |-> "none"]
        BY <1>1, <2>1, <2>5, ParseEnd, Zenon
      <4> QED
        BY <4>1
    <3>2. b + part.parsed + 1 = b + i
      BY <1>1, <2>5, <3>1
    <3>3. ASSUME b + Len(d) = Len(s) PROVE whole.cmds = <<>>
      <4>1. b + i = Len(s) + 1
        BY <1>1, <2>5, <3>3
      <4>2. whole = [cmds |-> <<>>, parsed |-> Len(s), error |-> "none"]
        BY <1>1, <2>1, <4>1, ParseEnd, Zenon
      <4> QED
        BY <4>2
    <3> QED
      BY <2>1, <2>4, <3>1, <3>2, <3>3 DEF Frames
  <2>6. CASE i # Len(d) + 1
    <3>1. i \in 1..Len(d) /\ b + i \in 1..Len(s)
      BY <1>1, <2>6
    <3>2. PICK r, q : r = ReadCommand(d, i) /\ q = ReadCommand(s, b + i)
      OBVIOUS
    <3>3. /\ r.res = "command" => q.res = "command" /\ q.cmd = r.cmd /\ q.next = b + r.next
          /\ r.res = "syntax" => q.res = "syntax"
          /\ b + Len(d) = Len(s) => q.res = r.res
      BY <3>1, <3>2, ReadPart
    <3>4. /\ r.res \in {"incomplete", "syntax", "command"}
          /\ r.res = "command" => r.cmd \in ParsedCommands /\ r.next \in (i + 1)..(Len(d) + 1)
      BY <1>1, <3>1, <3>2, ReadResult
    <3>5. CASE r.res = "command"
      <4>1. PICK after, rest, more : /\ after = ParseFrom(d)[r.next]
                                     /\ rest = ParseFrom(s)[b + after.parsed + 1].cmds
                                     /\ more = ParseFrom(s)[b + r.next].cmds
        OBVIOUS
      <4>2. Frames(d, s, b, r.next)
        BY <1>2, <3>4, <3>5
      <4>3. more = after.cmds \o rest /\ (after.error = "syntax" \/ b + Len(d) = Len(s) => rest = <<>>)
        BY <4>1, <4>2 DEF Frames
      <4>4. part.cmds = <<r.cmd>> \o after.cmds /\ part.parsed = after.parsed /\ part.error = after.error
        BY <1>1, <2>1, <3>1, <3>2, <3>5, <4>1, ParseCommand
      <4>5. whole.cmds = <<r.cmd>> \o more
        <5>1. q.res = "command" /\ q.cmd = r.cmd /\ q.next = b + r.next
          BY <3>3, <3>5
        <5>2. ParseFrom(s)[b + i].cmds = <<q.cmd>> \o ParseFrom(s)[q.next].cmds
          BY <1>1, <3>1, <3>2, <5>1, ParseCommand
        <5> QED
          BY <2>1, <4>1, <5>1, <5>2
      <4>6. r.next \in 1..(Len(d) + 1)
        BY <1>1, <3>1, <3>4, <3>5
      <4>7. after.cmds \in Seq(ParsedCommands) /\ after.parsed \in 0..Len(d)
        BY <1>1, <4>1, <4>6, ParseFields
      <4>8. b + after.parsed + 1 \in 1..(Len(s) + 1)
        BY <1>1, <4>7, SMTT(15)
      <4>9. rest \in Seq(ParsedCommands)
        BY <1>1, <4>1, <4>8, ParseFields
      <4>10. <<r.cmd>> \in Seq(ParsedCommands)
        BY <3>4, <3>5
      <4>11. (<<r.cmd>> \o after.cmds) \o rest = <<r.cmd>> \o (after.cmds \o rest)
        BY <4>7, <4>9, <4>10, Regrouped DEF Regroups
      <4> QED
        BY <2>1, <4>1, <4>3, <4>4, <4>5, <4>11 DEF Frames
    <3>6. CASE r.res # "command"
      <4>1. part = Stops(i, r.res)
        BY <1>1, <2>1, <3>1, <3>2, <3>6, ParsePass
      <4>2. part.cmds = <<>> /\ b + part.parsed + 1 = b + i /\ part.error = r.res
        BY <1>1, <3>1, <4>1 DEF Stops
      <4>3. ASSUME r.res = "syntax" \/ b + Len(d) = Len(s) PROVE whole.cmds = <<>>
        <5>1. q.res # "command"
          BY <3>3, <3>6, <4>3
        <5>2. whole = Stops(b + i, q.res)
          BY <1>1, <2>1, <3>1, <3>2, <5>1, ParsePass
        <5> QED
          BY <5>2 DEF Stops
      <4> QED
        BY <2>1, <2>4, <4>2, <4>3 DEF Frames
    <3> QED
      BY <3>5, <3>6
  <2> QED
    BY <2>5, <2>6
<1>3. \A i \in 1..(Len(d) + 1) : (\A k \in (i + 1)..(Len(d) + 1) : k \in G) => i \in G
  BY <1>2
<1>4. \A i \in 1..(Len(d) + 1) : i \in G
  <2> HIDE DEF G
  <2> QED
    BY <1>1, <1>3, Downward
<1> QED
  BY <1>4


(* A part is a subsequence. *)
LEMMA PartIsSubSeq ==
  ASSUME NEW s \in Seq(Tokens), NEW b \in Nat, NEW e \in Nat, b <= e, e <= Len(s)
  PROVE  /\ PartOf(SubSeq(s, b + 1, e), s, b) /\ Len(SubSeq(s, b + 1, e)) = e - b
         /\ \A d : PartOf(d, s, b) /\ b + Len(d) = e => d = SubSeq(s, b + 1, e)
<1>1. Len(s) \in Nat
  BY LenProperties
<1>2. PICK u : u = SubSeq(s, b + 1, e)
  OBVIOUS
<1>3. u \in Seq(Tokens) /\ Len(u) = e - b /\ \A k \in 1..(e - b) : u[k] = s[b + k]
  <2>1. u \in Seq(Tokens)
    BY <1>1, <1>2, SubSeqProperties
  <2>2. Len(u) = e - b
    BY <1>1, <1>2
  <2>3. ASSUME NEW k \in 1..(e - b) PROVE u[k] = s[b + k]
    <3>1. u[k] = s[b + 1 + k - 1] /\ b + 1 + k - 1 = b + k
      BY <1>1, <1>2
    <3> QED
      BY <3>1
  <2> QED
    BY <2>1, <2>2, <2>3
<1>4. PartOf(u, s, b)
  BY <1>1, <1>3 DEF PartOf
<1>5. ASSUME NEW d, PartOf(d, s, b), b + Len(d) = e PROVE d = u
  <2>1. d \in Seq(Tokens) /\ Len(d) \in Nat
    BY <1>5, LenProperties DEF PartOf
  <2>2. Len(d) = Len(u)
    BY <1>3, <1>5, <2>1
  <2>3. \A k \in 1..Len(d) : d[k] = u[k]
    BY <1>3, <1>5, <2>1, <2>2 DEF PartOf
  <2> QED
    BY <1>3, <2>1, <2>2, <2>3, SeqEqual
<1> QED
  BY <1>2, <1>3, <1>4, <1>5

\* With what was received since, up to e; and what is left after p tokens.
Grown(got, d, s, b, e) ==
  /\ PartOf(d, s, b) /\ e \in Nat /\ b + Len(d) <= e /\ e <= Len(s)
  /\ got = d \o SubSeq(s, b + Len(d) + 1, e)
Left(e, d, s, b, p) == PartOf(d, s, b) /\ p \in 0..Len(d) /\ e = SubSeq(d, p + 1, Len(d))

(* The part that is kept, and the tokens received after it. *)
LEMMA PartGrows ==
  ASSUME NEW d, NEW s, NEW b, NEW e, NEW got, Grown(got, d, s, b, e)
  PROVE  PartOf(got, s, b) /\ b + Len(got) = e
<1>0. PartOf(d, s, b) /\ e \in Nat /\ b + Len(d) <= e /\ e <= Len(s) /\ got = d \o SubSeq(s, b + Len(d) + 1, e)
  BY DEF Grown
<1>1. /\ d \in Seq(Tokens) /\ s \in Seq(Tokens) /\ b \in Nat /\ Len(d) \in Nat /\ Len(s) \in Nat
      /\ b + Len(d) \in Nat
  BY <1>0, LenProperties DEF PartOf
<1>2. PICK u : u = SubSeq(s, b + Len(d) + 1, e)
  OBVIOUS
<1>3. PartOf(u, s, b + Len(d)) /\ Len(u) = e - (b + Len(d))
  BY <1>0, <1>1, <1>2, PartIsSubSeq
<1>4. u \in Seq(Tokens) /\ \A k \in 1..Len(u) : u[k] = s[b + Len(d) + k]
  BY <1>3 DEF PartOf
<1>5. got \in Seq(Tokens) /\ Len(got) = Len(d) + Len(u)
  BY <1>0, <1>1, <1>2, <1>4, ConcatProperties
<1>6. ASSUME NEW k \in 1..Len(got) PROVE got[k] = s[b + k]
  <2>1. k \in 1..(Len(d) + Len(u)) /\ Len(u) \in Nat
    BY <1>4, <1>5, LenProperties
  <2>2. got[k] = IF k <= Len(d) THEN d[k] ELSE u[k - Len(d)]
    BY <1>0, <1>1, <1>2, <1>4, <2>1, ConcatProperties
  <2>3. CASE k <= Len(d)
    BY <1>0, <1>1, <2>1, <2>2, <2>3 DEF PartOf
  <2>4. CASE ~(k <= Len(d))
    <3>1. k - Len(d) \in 1..Len(u) /\ b + Len(d) + (k - Len(d)) = b + k
      BY <1>1, <2>1, <2>4
    <3> QED
      BY <1>4, <2>2, <2>4, <3>1
  <2> QED
    BY <2>3, <2>4
<1>7. b + Len(got) = e
  BY <1>0, <1>1, <1>3, <1>5
<1> QED
  BY <1>0, <1>1, <1>5, <1>6, <1>7 DEF PartOf

(* What is kept of a part. *)
LEMMA PartShrinks ==
  ASSUME NEW d, NEW s, NEW b, NEW p, NEW e, Left(e, d, s, b, p)
  PROVE  PartOf(e, s, b + p) /\ Len(e) = Len(d) - p
<1>0. PartOf(d, s, b) /\ p \in 0..Len(d) /\ e = SubSeq(d, p + 1, Len(d))
  BY DEF Left
<1>1. d \in Seq(Tokens) /\ s \in Seq(Tokens) /\ b \in Nat /\ Len(d) \in Nat /\ Len(s) \in Nat
      /\ b + Len(d) <= Len(s) /\ p \in Nat /\ p <= Len(d)
  BY <1>0, LenProperties DEF PartOf
<1>2. PartOf(e, d, p) /\ Len(e) = Len(d) - p
  BY <1>0, <1>1, PartIsSubSeq
<1>3. e \in Seq(Tokens) /\ \A k \in 1..Len(e) : e[k] = d[p + k]
  BY <1>2 DEF PartOf
<1>4. ASSUME NEW k \in 1..Len(e) PROVE e[k] = s[b + p + k]
  <2>1. p + k \in 1..Len(d) /\ b + (p + k) = b + p + k
    BY <1>1, <1>2
  <2>2. d[p + k] = s[b + (p + k)]
    BY <1>0, <2>1 DEF PartOf
  <2> QED
    BY <1>3, <2>1, <2>2
<1>5. b + p \in Nat /\ b + p + Len(e) <= Len(s)
  <2>1. PICK m, n, k : m = Len(d) /\ n = Len(s) /\ k = Len(e)
    OBVIOUS
  <2>2. m \in Nat /\ n \in Nat /\ b \in Nat /\ p \in Nat /\ k = m - p /\ b + m <= n
    BY <1>1, <1>2, <2>1
  <2>3. b + p \in Nat /\ b + p + k <= n
    BY <2>2
  <2> QED
    BY <2>1, <2>3
<1> QED
  BY <1>1, <1>2, <1>3, <1>4, <1>5 DEF PartOf


-----------------------------------------------------------------------------
(* The session.                                                            *)

\* The types the argument uses.
FrameTypes ==
  /\ stream \in Streams /\ data \in Seq(Tokens)
  /\ executed \in Seq(ParsedCommands) /\ cmds \in Seq(ParsedCommands)

(* What FrameInv says, as a part of the stream. *)
LEMMA FrameParts ==
  ASSUME FrameTypes, FrameInv
  PROVE  /\ stream \in Seq(Tokens) /\ Len(stream) \in Nat
         /\ pos \in Nat /\ pos <= Len(stream) /\ Len(data) \in Nat /\ pos - Len(data) \in Nat
         /\ PartOf(data, stream, pos - Len(data))
<1>1. stream \in Seq(Tokens) /\ Len(stream) \in Nat /\ Len(data) \in Nat
  BY StreamsAssumption, LenProperties DEF FrameTypes
<1>2. pos \in 0..Len(stream) /\ Len(data) <= pos /\ data = SubSeq(stream, pos - Len(data) + 1, pos)
  BY DEF FrameInv
<1>3. pos \in Nat /\ pos <= Len(stream) /\ pos - Len(data) \in Nat /\ pos - Len(data) <= pos
  BY <1>1, <1>2
<1>4. PICK b : b = pos - Len(data)
  OBVIOUS
<1>5. PartOf(SubSeq(stream, b + 1, pos), stream, b)
  BY <1>1, <1>3, <1>4, PartIsSubSeq
<1> QED
  BY <1>1, <1>2, <1>3, <1>4, <1>5

(* handle_new_client: everything is still to be read. *)
LEMMA FrameInit == Init => FrameTypes /\ FrameInv
<1> SUFFICES ASSUME Init PROVE FrameTypes /\ FrameInv
  OBVIOUS
<1>1. /\ stream \in Streams /\ pos = 0 /\ data = <<>> /\ cmds = <<>> /\ executed = <<>> /\ error = "none"
  BY DEF Init
<1>2. stream \in Seq(Tokens) /\ Len(stream) \in Nat
  BY <1>1, StreamsAssumption, LenProperties
<1>3. Len(data) = 0 /\ data \in Seq(Tokens) /\ <<>> \in Seq(ParsedCommands)
  BY <1>1
<1>4. FrameTypes
  BY <1>1, <1>3 DEF FrameTypes
<1>5. pos - Len(data) + 1 = 1
  BY <1>1, <1>3
<1>6. PICK rest : rest = ParseFrom(stream)[1].cmds
  OBVIOUS
<1>7. rest \in Seq(ParsedCommands)
  <2>1. 1 \in 1..(Len(stream) + 1)
    BY <1>2
  <2> QED
    BY <1>2, <1>6, <2>1, ParseFields
<1>8. (executed \o cmds) \o rest = rest
  BY <1>1, <1>3, <1>7
<1>9. ASSUME Len(stream) = 0 PROVE rest = <<>>
  <2>1. ParseFrom(stream)[Len(stream) + 1] = [cmds |-> <<>>, parsed |-> Len(stream), error |-> "none"]
    BY <1>2, ParseEnd
  <2>2. Len(stream) + 1 = 1
    BY <1>9
  <2> QED
    BY <1>6, <2>1, <2>2
<1>10. data = SubSeq(stream, 1, 0)
  BY <1>1, <1>2
<1>11. pos \in 0..Len(stream) /\ Len(data) <= pos
  BY <1>1, <1>2, <1>3
<1> QED
  BY <1>1, <1>4, <1>5, <1>6, <1>8, <1>9, <1>10, <1>11 DEF FrameInv, ParseDbRequests

(* handle_db_requests: what has arrived is a part of the stream, and so is *)
(* what is kept of it.                                                     *)
LEMMA FrameReceive ==
  ASSUME FrameTypes, FrameInv, NEW n \in 1..Len(stream), Receive(n)
  PROVE  FrameTypes' /\ FrameInv'
<1>1. /\ stream \in Seq(Tokens) /\ Len(stream) \in Nat
      /\ pos \in Nat /\ pos <= Len(stream) /\ Len(data) \in Nat /\ pos - Len(data) \in Nat
      /\ PartOf(data, stream, pos - Len(data))
  BY FrameParts
<1>2. PICK b, got : b = pos - Len(data) /\ got = data \o SubSeq(stream, pos + 1, pos + n)
  OBVIOUS
<1>3. PICK all : all = ParseFrom(got)[1]
  OBVIOUS
<1>4. /\ pc = "reading" /\ pos + n <= Len(stream) /\ pos' = pos + n
      /\ cmds' = all.cmds /\ error' = all.error /\ data' = SubSeq(got, all.parsed + 1, Len(got))
      /\ pc' = "serving" /\ stream' = stream /\ executed' = executed
  BY <1>2, <1>3 DEF Receive, ParseDbRequests
<1>5. b \in Nat /\ b + Len(data) = pos /\ pos + n \in Nat /\ pos <= pos + n
  BY <1>1, <1>2
<1>6. PartOf(got, stream, b) /\ b + Len(got) = pos + n
  <2>1. got = data \o SubSeq(stream, b + Len(data) + 1, pos + n)
    BY <1>2, <1>5
  <2>2. PartOf(data, stream, b) /\ b + Len(data) <= pos + n
    BY <1>1, <1>2, <1>5
  <2>3. PICK e \in Nat : e = pos + n
    BY <1>5
  <2>4. b + Len(data) <= e /\ e <= Len(stream) /\ got = data \o SubSeq(stream, b + Len(data) + 1, e)
    BY <1>4, <2>1, <2>2, <2>3
  <2>5. PartOf(got, stream, b) /\ b + Len(got) = e
    <3>1. Grown(got, data, stream, b, e)
      BY <2>2, <2>4 DEF Grown
    <3> QED
      BY <3>1, PartGrows
  <2> QED
    BY <2>3, <2>5
<1>7. got \in Seq(Tokens) /\ Len(got) \in Nat /\ 1 \in 1..(Len(got) + 1)
  BY <1>6, LenProperties DEF PartOf
<1>8. all.cmds \in Seq(ParsedCommands) /\ all.parsed \in 0..Len(got)
  BY <1>3, <1>7, ParseFields
<1>9. PICK p \in 0..Len(got) : p = all.parsed
  BY <1>8
<1>10. PartOf(data', stream, b + p) /\ Len(data') = Len(got) - p
  <2>1. PICK e : e = SubSeq(got, p + 1, Len(got))
    OBVIOUS
  <2>2. PartOf(e, stream, b + p) /\ Len(e) = Len(got) - p
    <3>1. Left(e, got, stream, b, p)
      BY <1>6, <2>1 DEF Left
    <3> QED
      BY <3>1, PartShrinks
  <2>3. data' = e
    BY <1>4, <1>9, <2>1
  <2> QED
    BY <2>2, <2>3
<1>11. data' \in Seq(Tokens)
  BY <1>10 DEF PartOf
<1>12. b + p \in Nat /\ b + p <= pos + n /\ pos' - Len(data') = b + p /\ Len(data') <= pos' /\ b + p + Len(data') = pos'
  <2>1. PICK g, k : g = Len(got) /\ k = Len(data')
    OBVIOUS
  <2>2. g \in Nat /\ p \in 0..g /\ k = g - p /\ b + g = pos + n /\ pos' = pos + n /\ b \in Nat /\ pos + n \in Nat
    BY <1>4, <1>5, <1>6, <1>7, <1>10, <2>1
  <2>3. b + p \in Nat /\ b + p <= pos + n /\ pos' - k = b + p /\ k <= pos' /\ b + p + k = pos'
    BY <2>2
  <2> QED
    BY <2>1, <2>3
<1>13. FrameTypes'
  BY <1>4, <1>8, <1>11 DEF FrameTypes
<1>14. data' = SubSeq(stream, b + p + 1, pos')
  <2>1. PICK a \in Nat, e \in Nat : a = b + p /\ e = pos + n
    BY <1>5, <1>12
  <2>2. PICK d : d = data'
    OBVIOUS
  <2>3. a <= e /\ e <= Len(stream) /\ PartOf(d, stream, a) /\ a + Len(d) = e
    BY <1>4, <1>10, <1>12, <2>1, <2>2
  <2>4. d = SubSeq(stream, a + 1, e)
    BY <1>1, <2>3, PartIsSubSeq
  <2> QED
    BY <1>4, <2>1, <2>2, <2>4
<1>15. PICK old, rest : old = ParseFrom(stream)[b + 1].cmds /\ rest = ParseFrom(stream)[b + p + 1].cmds
  OBVIOUS
<1>16. old = all.cmds \o rest /\ (all.error = "syntax" \/ b + Len(got) = Len(stream) => rest = <<>>)
  <2>1. Frames(got, stream, b, 1)
    BY <1>6, <1>7, Framing
  <2> QED
    BY <1>3, <1>9, <1>15, <2>1 DEF Frames
<1>17. rest \in Seq(ParsedCommands)
  <2>1. b + p + 1 \in 1..(Len(stream) + 1)
    BY <1>1, <1>4, <1>5, <1>12
  <2> QED
    BY <1>1, <1>15, <2>1, ParseFields
<1>18. executed \in Seq(ParsedCommands) /\ cmds = <<>>
  BY <1>4 DEF FrameTypes, FrameInv
<1>19. (executed \o cmds) \o old = ParseDbRequests(stream).cmds
  BY <1>2, <1>15 DEF FrameInv
<1>20. (executed' \o cmds') \o rest = ParseDbRequests(stream).cmds
  <2>1. (executed \o all.cmds) \o rest = executed \o (all.cmds \o rest)
    BY <1>8, <1>17, <1>18, Regrouped DEF Regroups
  <2>2. executed \o cmds = executed
    BY <1>18
  <2> QED
    BY <1>4, <1>16, <1>19, <2>1, <2>2
<1>21. pos' \in 0..Len(stream)
  BY <1>1, <1>4, <1>5
<1>22. pos' = Len(stream) \/ error' = "syntax" => rest = <<>>
  BY <1>4, <1>6, <1>16
<1> QED
  BY <1>4, <1>12, <1>13, <1>14, <1>15, <1>20, <1>21, <1>22 DEF FrameInv

(* Every other step only moves commands from the parsed to the executed.  *)
LEMMA FrameKeeps ==
  ASSUME FrameTypes, FrameInv, UNCHANGED <<stream, pos, data, error>>,
         executed' \in Seq(ParsedCommands), cmds' \in Seq(ParsedCommands),
         executed' \o cmds' = executed \o cmds, pc' = "reading" => cmds' = <<>>
  PROVE  FrameTypes' /\ FrameInv'
<1>1. FrameTypes'
  BY DEF FrameTypes
<1>2. FrameInv'
  BY DEF FrameInv
<1> QED
  BY <1>1, <1>2

(* A command is executed: it moves from the parsed to the executed ones.  *)
LEMMA FrameExecute ==
  ASSUME FrameTypes, FrameInv, NEW r \in Replies, Execute(r)
  PROVE  FrameTypes' /\ FrameInv'
<1>1. /\ cmds # <<>> /\ cmds' = Tail(cmds) /\ executed' = Append(executed, Head(cmds)) /\ pc = "serving"
      /\ UNCHANGED <<stream, pos, pc, data, error>>
  BY DEF Execute
<1>2. executed \in Seq(ParsedCommands) /\ cmds \in Seq(ParsedCommands)
  BY DEF FrameTypes
<1>3. /\ Head(cmds) \in ParsedCommands /\ Tail(cmds) \in Seq(ParsedCommands)
      /\ Append(executed, Head(cmds)) \o Tail(cmds) = executed \o cmds
  BY <1>1, <1>2, MoveHead
<1>4. Append(executed, Head(cmds)) \in Seq(ParsedCommands)
  BY <1>2, <1>3, AppendProperties
<1> QED
  BY <1>1, <1>3, <1>4, FrameKeeps

(* Every step keeps the invariant. *)
LEMMA FrameStep == FrameTypes /\ FrameInv /\ [Next]_vars => FrameTypes' /\ FrameInv'
<1> SUFFICES ASSUME FrameTypes, FrameInv, [Next]_vars PROVE FrameTypes' /\ FrameInv'
  OBVIOUS
<1>1. executed \in Seq(ParsedCommands) /\ cmds \in Seq(ParsedCommands) /\ (pc = "reading" => cmds = <<>>)
  BY DEF FrameTypes, FrameInv
<1>2. ASSUME UNCHANGED <<stream, pos, data, error, executed, cmds>>, pc' = "reading" => cmds = <<>>
      PROVE  FrameTypes' /\ FrameInv'
  BY <1>1, <1>2, FrameKeeps
<1>3. ASSUME NEW n \in 1..Len(stream), Receive(n) PROVE FrameTypes' /\ FrameInv'
  BY <1>3, FrameReceive
<1>4. CASE ReceiveFails
  BY <1>2, <1>4 DEF ReceiveFails
<1>5. CASE ReadDropped
  BY <1>2, <1>5 DEF ReadDropped
<1>6. ASSUME NEW r \in Replies, Execute(r) PROVE FrameTypes' /\ FrameInv'
  BY <1>6, FrameExecute
<1>7. CASE Served
  BY <1>2, <1>7 DEF Served
<1>8. ASSUME NEW ok \in BOOLEAN, Write(ok) PROVE FrameTypes' /\ FrameInv'
  BY <1>1, <1>2, <1>8 DEF Write
<1>9. CASE UNCHANGED vars
  BY <1>1, <1>2, <1>9 DEF vars
<1> QED
  BY <1>3, <1>4, <1>5, <1>6, <1>7, <1>8, <1>9 DEF Next

\* The inductive invariant of the framing (handle_db_requests): what a session
\* keeps in prev_data begins where a parser of the whole stream comes by, and
\* what that one reads from there is what is still missing.
THEOREM FramingInductive == Spec => [](FrameTypes /\ FrameInv)
BY FrameInit, FrameStep, PTL DEF Spec

\* However TCP cuts the stream into reads, the commands executed are those of
\* the stream parsed in one piece, in order, and all of them once everything
\* was read and the session waits for more (handle_db_requests, prev_data).
THEOREM FramingDoesNotMatter == Spec => []FramingIndependent
<1>1. FrameTypes /\ FrameInv => FramingIndependent
  <2> SUFFICES ASSUME FrameTypes, FrameInv PROVE FramingIndependent
    OBVIOUS
  <2>1. PICK all, rest : /\ all = ParseDbRequests(stream).cmds
                         /\ rest = ParseFrom(stream)[pos - Len(data) + 1].cmds
    OBVIOUS
  <2>2. /\ (executed \o cmds) \o rest = all
        /\ pos = Len(stream) => rest = <<>>
        /\ pc = "reading" => cmds = <<>>
    BY <2>1 DEF FrameInv
  <2>3. PICK x \in Seq(ParsedCommands), y \in Seq(ParsedCommands) : x = executed /\ y = cmds
    BY DEF FrameTypes
  <2>4. rest \in Seq(ParsedCommands)
    <3>1. /\ stream \in Seq(Tokens) /\ Len(stream) \in Nat
          /\ pos \in Nat /\ pos <= Len(stream) /\ Len(data) \in Nat /\ pos - Len(data) \in Nat
      BY FrameParts
    <3>2. pos - Len(data) + 1 \in 1..(Len(stream) + 1)
      BY <3>1
    <3> QED
      BY <2>1, <3>1, <3>2, ParseFields
  <2>5. Regroups(x, y, rest) /\ y \o rest \in Seq(ParsedCommands)
    BY <2>4, Regrouped
  <2>6. all = x \o (y \o rest) /\ y \o rest \in Seq(ParsedCommands)
    BY <2>2, <2>3, <2>5 DEF Regroups
  <2>7. IsPrefix(x, x \o (y \o rest))
    BY <2>6, PrefixOfConcat
  <2>8. ASSUME pc = "reading", pos = Len(stream) PROVE executed = all
    BY <2>2, <2>3, <2>8
  <2> QED
    BY <2>1, <2>3, <2>6, <2>7, <2>8 DEF FramingIndependent
<1> QED
  BY <1>1, FramingInductive, PTL
=============================================================================
