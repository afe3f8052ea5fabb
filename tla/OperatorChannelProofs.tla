------------------------ MODULE OperatorChannelProofs ------------------------
(***************************************************************************)
(* Theorems about OperatorChannel, for any number of requests, operator    *)
(* sessions and TUIs.                                                      *)
(*                                                                         *)
(* The argument: a session attaches once, so what an earlier TUI of a      *)
(* request still asks cannot become current again; a job is in exactly one *)
(* inbox or `waiting` set of an attached session; a withdrawal is sent     *)
(* only by a request that is over.                                         *)
(***************************************************************************)
EXTENDS OperatorChannel, FiniteSetTheorems, TLAPS

\* A session is listed while its thread serves it, and nothing is sent to a
\* session before it attaches.
Lifecycle ==
    \A s \in Sessions :
      /\ s \in attached => sess[s] \in {"open", "closing"}
      /\ sess[s] = "off" => inbox[s] = <<>> /\ waiting[s] = {}

\* A request that chose a session chose one that has attached; only closure
\* requests are registered.
Addressed ==
    \A r \in Requests :
      /\ op[r] # Nobody => sess[op[r]] # "off"
      /\ pc[r] \in {"number", "register", "send", "await", "polled"} => op[r] # Nobody
      /\ pc[r] = "register" => kind[r] = "closure"

\* Only a request that is over was withdrawn.
WithdrawnOver ==
    \A r \in Requests, s \in Sessions : InInbox(s, {"withdraw"}, r) => pc[r] = "done"

\* An attached TUI asks about a request only if the request was sent to it last.
AskedHere ==
    \A r \in Requests, s \in attached :
      AskedAt(s, r) => op[r] = s /\ pc[r] \in {"await", "polled", "done"}

IndInv ==
    /\ Lifecycle /\ Addressed /\ WithdrawnOver /\ AskedHere
    /\ NoneForgotten /\ SlotsMatch /\ ClosureOwner

-----------------------------------------------------------------------------
(* Sequences as the sets of their elements.                                *)

\* Appending adds one element to the set of elements.
LEMMA RangeAppend ==
  ASSUME NEW S, NEW q \in Seq(S), NEW m \in S
  PROVE  /\ Append(q, m) \in Seq(S)
         /\ Range(Append(q, m)) = Range(q) \cup {m}
  <1>1. \A i \in 1..Len(q) : Append(q, m)[i] = q[i] OBVIOUS
  <1>2. Append(q, m)[Len(q) + 1] = m OBVIOUS
  <1>3. DOMAIN Append(q, m) = 1..(Len(q) + 1) /\ DOMAIN q = 1..Len(q) OBVIOUS
  <1>4. 1..(Len(q) + 1) = (1..Len(q)) \cup {Len(q) + 1} OBVIOUS
  <1> QED BY <1>1, <1>2, <1>3, <1>4 DEF Range

\* Taking the head of a sequence takes one element from the set of elements,
\* unless the element is in the sequence again.
LEMMA RangeTail ==
  ASSUME NEW S, NEW q \in Seq(S), q # <<>>
  PROVE  /\ Head(q) \in S /\ Tail(q) \in Seq(S)
         /\ Range(q) = {Head(q)} \cup Range(Tail(q))
  <1>1. \A i \in 1..Len(Tail(q)) : Tail(q)[i] = q[i + 1] OBVIOUS
  <1>2. Head(q) = q[1] /\ Len(Tail(q)) = Len(q) - 1 /\ Len(q) \in Nat \ {0} OBVIOUS
  <1>3. DOMAIN Tail(q) = 1..(Len(q) - 1) /\ DOMAIN q = 1..Len(q) OBVIOUS
  <1>4. ASSUME NEW x \in Range(q) PROVE x \in {Head(q)} \cup Range(Tail(q))
    <2>1. PICK i \in 1..Len(q) : x = q[i] BY <1>3 DEF Range
    <2>2. CASE i = 1 BY <2>1, <2>2, <1>2
    <2>3. CASE i # 1
      <3>1. i - 1 \in 1..(Len(q) - 1) BY <2>1, <2>3
      <3>2. Tail(q)[i - 1] = q[(i - 1) + 1] BY <3>1, <1>1, <1>2
      <3>3. (i - 1) + 1 = i BY <2>1
      <3>4. x = Tail(q)[i - 1] BY <3>2, <3>3, <2>1
      <3> QED BY <3>1, <3>4, <1>3 DEF Range
    <2> QED BY <2>2, <2>3
  <1>5. ASSUME NEW x \in Range(Tail(q)) PROVE x \in Range(q)
    <2>1. PICK i \in 1..(Len(q) - 1) : x = Tail(q)[i] BY <1>3 DEF Range
    <2>2. x = q[i + 1] /\ i + 1 \in 1..Len(q) BY <2>1, <1>1, <1>2
    <2> QED BY <2>2, <1>3 DEF Range
  <1>6. Head(q) \in Range(q) BY <1>2, <1>3 DEF Range
  <1> QED BY <1>2, <1>4, <1>5, <1>6

\* A concatenation has the elements of both sequences.
LEMMA RangeConcat ==
  ASSUME NEW S, NEW p \in Seq(S), NEW q \in Seq(S)
  PROVE  p \o q \in Seq(S) /\ Range(p \o q) = Range(p) \cup Range(q)
  <1>1. DOMAIN (p \o q) = 1..(Len(p) + Len(q)) /\ DOMAIN p = 1..Len(p)
          /\ DOMAIN q = 1..Len(q) OBVIOUS
  <1>2. \A i \in 1..Len(p) : (p \o q)[i] = p[i] OBVIOUS
  <1>3. \A i \in 1..Len(q) : (p \o q)[Len(p) + i] = q[i] OBVIOUS
  <1>4. ASSUME NEW x \in Range(p \o q) PROVE x \in Range(p) \cup Range(q)
    <2>1. PICK i \in 1..(Len(p) + Len(q)) : x = (p \o q)[i] BY <1>1 DEF Range
    <2>2. CASE i <= Len(p) BY <2>1, <2>2, <1>1, <1>2 DEF Range
    <2>3. CASE i > Len(p)
      <3>1. i - Len(p) \in 1..Len(q) BY <2>1, <2>3
      <3>2. x = q[i - Len(p)] BY <2>1, <3>1, <1>3
      <3> QED BY <3>1, <3>2, <1>1 DEF Range
    <2> QED BY <2>2, <2>3
  <1>5. ASSUME NEW x \in Range(p) \cup Range(q) PROVE x \in Range(p \o q)
    <2>1. CASE x \in Range(p) BY <2>1, <1>1, <1>2 DEF Range
    <2>2. CASE x \in Range(q)
      <3>1. PICK i \in 1..Len(q) : x = q[i] BY <2>2, <1>1 DEF Range
      <3>2. Len(p) + i \in 1..(Len(p) + Len(q)) BY <3>1
      <3> QED BY <3>1, <3>2, <1>1, <1>3 DEF Range
    <2> QED BY <2>1, <2>2
  <1> QED BY <1>4, <1>5

-----------------------------------------------------------------------------
(* What the helpers of the actions do.                                     *)

\* Moving one thread keeps the count right when the slot moves with it.
LEMMA SlotStep ==
  ASSUME TypeOK, SlotsMatch, NEW r \in Requests, NEW x \in Pcs,
         pc' = [pc EXCEPT ![r] = x],
         pending' = IF pc[r] \in Held /\ x \notin Held THEN pending - 1
                    ELSE IF pc[r] \notin Held /\ x \in Held THEN pending + 1
                    ELSE pending
  PROVE  SlotsMatch' /\ pending' \in Nat
  <1> DEFINE held == {q \in Requests : pc[q] \in Held}
  <1>1. pc \in [Requests -> Pcs] BY DEF TypeOK
  <1>2. {q \in Requests : pc'[q] \in Held} =
          IF x \in Held THEN held \cup {r} ELSE held \ {r}
    BY <1>1
  <1>3. IsFiniteSet(held) BY RequestsAssumption, FS_Subset
  <1>4. pending = Cardinality(held) BY DEF SlotsMatch
  <1>5. r \in held <=> pc[r] \in Held OBVIOUS
  <1>6. /\ IsFiniteSet(held \cup {r})
        /\ Cardinality(held \cup {r}) = IF r \in held THEN Cardinality(held)
                                        ELSE Cardinality(held) + 1
    BY <1>3, FS_AddElement
  <1>7. /\ IsFiniteSet(held \ {r})
        /\ Cardinality(held \ {r}) = IF r \in held THEN Cardinality(held) - 1
                                     ELSE Cardinality(held)
    BY <1>3, FS_RemoveElement
  <1>8. pending' = IF x \in Held THEN Cardinality(held \cup {r})
                   ELSE Cardinality(held \ {r})
    BY <1>4, <1>5, <1>6, <1>7
  <1>9. Cardinality(held \cup {r}) \in Nat /\ Cardinality(held \ {r}) \in Nat
    BY <1>6, <1>7, FS_CardinalityType
  <1>10. SlotsMatch' BY <1>2, <1>8 DEF SlotsMatch
  <1> QED BY <1>8, <1>9, <1>10

\* A thread that returns gives back the slot it holds, once.
LEMMA FinishType ==
  ASSUME TypeOK, SlotsMatch, NEW r \in Requests,
         NEW how \in {"approved", "denied", "error"}, Finish(r, how)
  PROVE  /\ pc' \in [Requests -> Pcs]
         /\ result' \in [Requests -> {"none", "approved", "denied", "error"}]
         /\ granted' \in [Requests -> BOOLEAN]
         /\ registry' \in [Requests -> Tuis \cup {Nobody}]
         /\ pending' \in 0..MaxPending
         /\ SlotsMatch'
  <1>1. "done" \in Pcs /\ "done" \notin Held BY DEF Pcs, Held
  <1>2. SlotsMatch' /\ pending' \in Nat BY <1>1, SlotStep DEF Finish
  <1>3. pending' <= pending BY DEF Finish, TypeOK
  <1>4. pending' \in 0..MaxPending BY <1>2, <1>3, PendingAssumption DEF TypeOK
  <1>5. (how = "approved" /\ kind[r] = "login") \in BOOLEAN OBVIOUS
  <1> QED BY <1>1, <1>2, <1>4, <1>5 DEF Finish, TypeOK

\* A thread that moves on inside a request keeps its slot.
LEMMA MoveType ==
  ASSUME TypeOK, SlotsMatch, NEW r \in Requests, NEW x \in Held, pc[r] \in Held,
         pc' = [pc EXCEPT ![r] = x], pending' = pending
  PROVE  pc' \in [Requests -> Pcs] /\ SlotsMatch'
  <1>1. x \in Pcs BY DEF Held
  <1>2. SlotsMatch' BY <1>1, SlotStep
  <1> QED BY <1>1, <1>2 DEF TypeOK

\* Leaving a TUI: back to looking for one, or over.
LEMMA LostType ==
  ASSUME TypeOK, SlotsMatch, NEW r \in Requests, pc[r] \in Held, Lost(r)
  PROVE  /\ pc' \in [Requests -> Pcs]
         /\ result' \in [Requests -> {"none", "approved", "denied", "error"}]
         /\ granted' \in [Requests -> BOOLEAN]
         /\ registry' \in [Requests -> Tuis \cup {Nobody}]
         /\ pending' \in 0..MaxPending
         /\ SlotsMatch'
  <1>1. CASE kind[r] = "confirm" BY <1>1, FinishType DEF Lost
  <1>2. CASE kind[r] # "confirm"
    <2>1. "seek" \in Held BY DEF Held, Pcs
    <2>2. pc' \in [Requests -> Pcs] /\ SlotsMatch' BY <1>2, <2>1, MoveType DEF Lost
    <2> QED BY <1>2, <2>2 DEF Lost, TypeOK
  <1> QED BY <1>1, <1>2

\* Sending to an inbox.
LEMMA PostType ==
  ASSUME TypeOK, NEW s \in Sessions \cup {Nobody}, NEW m \in Message, Post(s, m)
  PROVE  /\ inbox' \in [Sessions -> Seq(Message)]
         /\ \A z \in Sessions :
              Range(inbox'[z]) = IF z = s /\ Alive(s) THEN Range(inbox[z]) \cup {m}
                                 ELSE Range(inbox[z])
         /\ \A z \in Sessions : sess[z] = "off" => inbox'[z] = inbox[z]
  <1>1. CASE Alive(s)
    <2>1. s \in Sessions /\ sess[s] # "off" BY <1>1 DEF Alive
    <2>2. inbox[s] \in Seq(Message) BY <2>1 DEF TypeOK
    <2>3. inbox' = [inbox EXCEPT ![s] = Append(inbox[s], m)] BY <1>1 DEF Post
    <2>4. /\ Append(inbox[s], m) \in Seq(Message)
          /\ Range(Append(inbox[s], m)) = Range(inbox[s]) \cup {m}
      BY <2>2, RangeAppend
    <2>5. \A z \in Sessions : inbox'[z] = IF z = s THEN Append(inbox[s], m) ELSE inbox[z]
      BY <2>1, <2>3 DEF TypeOK
    <2>6. inbox' \in [Sessions -> Seq(Message)] BY <2>1, <2>3, <2>4 DEF TypeOK
    <2> QED BY <1>1, <2>1, <2>4, <2>5, <2>6
  <1>2. CASE ~Alive(s) BY <1>2 DEF Post, TypeOK
  <1> QED BY <1>1, <1>2

\* A frame of the TUI reaches one inbox or none.
LEMMA UpwardType ==
  ASSUME TypeOK, NEW s \in Sessions, NEW m \in Message, Upward(s, m)
  PROVE  /\ inbox' \in [Sessions -> Seq(Message)]
         /\ \A z \in Sessions : Range(inbox'[z]) \in
                                  {Range(inbox[z]), Range(inbox[z]) \cup {m}}
         /\ \A z \in Sessions : sess[z] = "off" => inbox'[z] = inbox[z]
  <1>1. CASE up[s] BY <1>1, PostType DEF Upward
  <1>2. CASE ~up[s] BY <1>2 DEF Upward, TypeOK
  <1> QED BY <1>1, <1>2

\* Taking the next message of an inbox.
LEMMA ServeType ==
  ASSUME TypeOK, NEW s \in Sessions, NEW types, Serve(s, types)
  PROVE  /\ inbox' \in [Sessions -> Seq(Message)]
         /\ Head(inbox[s]) \in Message /\ Head(inbox[s]).type \in types
         /\ Range(inbox[s]) = {Head(inbox[s])} \cup Range(inbox'[s])
         /\ \A z \in Sessions : z # s => inbox'[z] = inbox[z]
         /\ sess[s] = "open"
  <1>1. inbox[s] \in Seq(Message) /\ inbox[s] # <<>> BY DEF TypeOK, Serve
  <1>2. inbox' = [inbox EXCEPT ![s] = Tail(inbox[s])] BY DEF Serve
  <1>3. /\ Head(inbox[s]) \in Message /\ Tail(inbox[s]) \in Seq(Message)
        /\ Range(inbox[s]) = {Head(inbox[s])} \cup Range(Tail(inbox[s]))
    BY <1>1, RangeTail
  <1>4. \A z \in Sessions : inbox'[z] = IF z = s THEN Tail(inbox[s]) ELSE inbox[z]
    BY <1>2 DEF TypeOK
  <1>5. inbox' \in [Sessions -> Seq(Message)] BY <1>2, <1>3 DEF TypeOK
  <1> QED BY <1>3, <1>4, <1>5 DEF Serve

\* Every message but "closed" is about a request.
LEMMA MessageReq ==
  ASSUME NEW m \in Message, m.type # "closed" PROVE m.req \in Requests
  BY DEF Message

\* A message about a request is a message.
LEMMA MsgType ==
  ASSUME NEW r \in Requests,
         NEW t \in {"job", "withdraw", "grantEnded", "cancel", "approved", "denied"}
  PROVE  Msg(t, r) \in Message /\ Msg(t, r).type = t /\ Msg(t, r).req = r
  BY DEF Msg, Message

\* The end of the connection is a message.
LEMMA ClosedType == Msg("closed", Nobody) \in Message /\ Msg("closed", Nobody).type = "closed"
  BY DEF Msg, Message

\* Messages of these types are sent, to sessions that have attached.
Sent(types) ==
    /\ inbox' \in [Sessions -> Seq(Message)]
    /\ \A z \in Sessions : Range(inbox[z]) \subseteq Range(inbox'[z])
    /\ \A z \in Sessions : \A m \in Range(inbox'[z]) : m \in Range(inbox[z]) \/ m.type \in types
    /\ \A z \in Sessions : sess[z] = "off" => inbox'[z] = inbox[z]

\* A frame of the TUI is sent.
LEMMA UpwardSent ==
  ASSUME TypeOK, NEW s \in Sessions, NEW m \in Message, Upward(s, m)
  PROVE  Sent({m.type})
  <1>1. /\ inbox' \in [Sessions -> Seq(Message)]
        /\ \A z \in Sessions : sess[z] = "off" => inbox'[z] = inbox[z]
    BY UpwardType
  <1>2. ASSUME NEW z \in Sessions
        PROVE  /\ Range(inbox[z]) \subseteq Range(inbox'[z])
               /\ \A x \in Range(inbox'[z]) : x \in Range(inbox[z]) \/ x.type = m.type
    <2>1. Range(inbox'[z]) \in {Range(inbox[z]), Range(inbox[z]) \cup {m}} BY UpwardType
    <2> QED BY <2>1
  <1> QED BY <1>1, <1>2 DEF Sent

\* Ending the login approvals of a connection sends only their ends.
LEMMA EndGrantsSent ==
  ASSUME TypeOK, NEW r \in Requests, EndGrants(r) PROVE Sent({"grantEnded"})
  <1> DEFINE m == Msg("grantEnded", r)
  <1>1. m \in Message /\ m.type = "grantEnded" BY MsgType
  <1>2. inbox' = [s \in Sessions |-> IF IsAttached(s) /\ Alive(s)
                                     THEN Append(inbox[s], m) ELSE inbox[s]]
    BY DEF EndGrants
  <1>3. ASSUME NEW z \in Sessions
        PROVE  /\ inbox'[z] \in Seq(Message)
               /\ Range(inbox[z]) \subseteq Range(inbox'[z])
               /\ Range(inbox'[z]) \subseteq Range(inbox[z]) \cup {m}
               /\ sess[z] = "off" => inbox'[z] = inbox[z]
    <2>1. inbox[z] \in Seq(Message) BY DEF TypeOK
    <2>2. /\ Append(inbox[z], m) \in Seq(Message)
          /\ Range(Append(inbox[z], m)) = Range(inbox[z]) \cup {m}
      BY <1>1, <2>1, RangeAppend
    <2>3. Alive(z) => sess[z] # "off" BY DEF Alive
    <2>4. inbox'[z] = IF IsAttached(z) /\ Alive(z) THEN Append(inbox[z], m) ELSE inbox[z]
      BY <1>2
    <2> QED BY <2>1, <2>2, <2>3, <2>4
  <1>4. inbox' \in [Sessions -> Seq(Message)] BY <1>2, <1>3
  <1> QED BY <1>1, <1>3, <1>4 DEF Sent

\* A closing TUI sends denials and its end.
LEMMA CloseTuiSent ==
  ASSUME TypeOK, NEW s \in Sessions, CloseTui(s) PROVE Sent({"denied", "closed"})
  <1> DEFINE asked == {r \in Requests : handler[s][r] \in {"counting", "asking"}}
             closed == Msg("closed", Nobody)
  <1>1. PICK order \in [1..Cardinality(asked) -> asked] :
          inbox' = IF Alive(s)
                   THEN [inbox EXCEPT ![s] =
                           (@ \o [i \in DOMAIN order |-> Msg("denied", order[i])]) \o <<closed>>]
                   ELSE inbox
    BY DEF CloseTui
  <1> DEFINE denials == [i \in DOMAIN order |-> Msg("denied", order[i])]
             last == <<closed>>
             first == inbox[s] \o denials
             new == first \o last
  <1>2. CASE ~Alive(s) BY <1>1, <1>2 DEF Sent, TypeOK
  <1>3. CASE Alive(s)
    <2>1. Cardinality(asked) \in Nat
      <3>1. IsFiniteSet(asked) BY RequestsAssumption, FS_Subset
      <3> QED BY <3>1, FS_CardinalityType
    <2>2. \A i \in 1..Cardinality(asked) :
            Msg("denied", order[i]) \in Message /\ Msg("denied", order[i]).type = "denied"
      BY MsgType
    <2>3. denials \in [1..Cardinality(asked) -> Message] BY <2>2
    <2> HIDE DEF denials
    <2>4. denials \in Seq(Message) BY <2>1, <2>3
    <2>5. \A m \in Range(denials) : m.type = "denied" BY <2>2 DEF Range, denials
    <2>6. last \in Seq(Message) /\ Range(last) = {closed}
      BY ClosedType DEF Range
    <2> HIDE DEF last
    <2>7. inbox[s] \in Seq(Message) BY DEF TypeOK
    <2>8. first \in Seq(Message) /\ Range(first) = Range(inbox[s]) \cup Range(denials)
      BY <2>4, <2>7, RangeConcat
    <2> HIDE DEF first
    <2>9. /\ new \in Seq(Message)
          /\ Range(new) = (Range(inbox[s]) \cup Range(denials)) \cup {closed}
      <3>1. Range(new) = Range(first) \cup Range(last)
        BY <2>6, <2>8, RangeConcat
      <3>2. new \in Seq(Message) BY <2>6, <2>8, RangeConcat
      <3> QED BY <3>1, <3>2, <2>6, <2>8
    <2>10. inbox' = [inbox EXCEPT ![s] = new] BY <1>1, <1>3 DEF denials, first, last
    <2> HIDE DEF new
    <2>11. inbox' \in [Sessions -> Seq(Message)] BY <2>9, <2>10 DEF TypeOK
    <2>12. \A z \in Sessions : inbox'[z] = IF z = s THEN new ELSE inbox[z]
      BY <2>10 DEF TypeOK
    <2>13. sess[s] # "off" BY <1>3 DEF Alive
    <2>14. closed.type = "closed" BY ClosedType
    <2> HIDE DEF closed
    <2> QED BY <2>5, <2>9, <2>11, <2>12, <2>13, <2>14 DEF Sent
  <1> QED BY <1>2, <1>3

-----------------------------------------------------------------------------
(* Types and slots.                                                        *)

\* The actions of a requester thread.
LEMMA RequesterTypes ==
  ASSUME TypeOK, SlotsMatch, NEW r \in Requests, Ask(r) \/ RequesterStep(r) \/ Leave(r)
  PROVE  TypeOK' /\ SlotsMatch'
  <1>0. /\ {"seek", "number", "register", "send", "await", "polled"} \subseteq Held
        /\ {"idle", "claim", "done"} \cap Held = {} /\ "claim" \in Pcs
    BY DEF Held, Pcs
  <1>1. CASE Ask(r)
    <2>1. CASE Finish(r, "error")
      BY <1>1, <2>1, FinishType DEF TypeOK, Ask, tuiVars
    <2>2. CASE At(r, "idle", "claim") /\ UNCHANGED <<result, granted, pending, registry>>
      <3>1. SlotsMatch' BY <2>2, <1>0, SlotStep DEF At
      <3> QED BY <1>0, <1>1, <2>2, <3>1 DEF TypeOK, Ask, At, tuiVars
    <2> QED BY <1>1, <2>1, <2>2 DEF Ask
  <1>2. CASE Claim(r)
    <2>1. CASE Finish(r, "error")
      BY <1>2, <2>1, FinishType DEF TypeOK, Claim, tuiVars
    <2>2. CASE pending < MaxPending /\ At(r, "claim", "seek") /\ pending' = pending + 1
                 /\ UNCHANGED <<result, granted, registry>>
      <3>1. "seek" \in Pcs BY DEF Pcs
      <3>2. SlotsMatch' /\ pending' \in Nat BY <2>2, <3>1, <1>0, SlotStep DEF At
      <3>3. pending' \in 0..MaxPending BY <2>2, <3>2, PendingAssumption DEF TypeOK
      <3> QED BY <1>2, <2>2, <3>1, <3>2, <3>3 DEF TypeOK, Claim, At, tuiVars
    <2> QED BY <1>2, <2>1, <2>2 DEF Claim
  <1>3. CASE Seek(r)
    <2>1. Sending(r) \in Held BY <1>0 DEF Sending
    <2>2. PICK x \in Held : pc[r] = "seek" /\ pc' = [pc EXCEPT ![r] = x]
      BY <1>0, <1>3, <2>1 DEF Seek, At
    <2>3. pending' = pending BY <1>3 DEF Seek
    <2>4. pc' \in [Requests -> Pcs] /\ SlotsMatch' BY <1>0, <2>2, <2>3, MoveType
    <2> QED BY <1>3, <2>4 DEF TypeOK, Seek, sessionVars, tuiVars
  <1>4. CASE SeekGone(r)
    BY <1>4, FinishType DEF TypeOK, SeekGone, tuiVars
  <1>5. CASE Number(r)
    <2>1. CASE Finish(r, "error")
      BY <1>5, <2>1, FinishType DEF TypeOK, Number, tuiVars
    <2>2. CASE At(r, "number", Sending(r)) /\ UNCHANGED <<result, granted, pending, registry>>
      <3>1. Sending(r) \in Held BY <1>0 DEF Sending
      <3>2. pc' \in [Requests -> Pcs] /\ SlotsMatch' BY <2>2, <3>1, <1>0, MoveType DEF At
      <3> QED BY <1>5, <2>2, <3>2 DEF TypeOK, Number, tuiVars
    <2> QED BY <1>5, <2>1, <2>2 DEF Number
  <1>6. CASE Register(r)
    <2>1. CASE Finish(r, "error")
      BY <1>6, <2>1, FinishType DEF TypeOK, Register, tuiVars
    <2>2. CASE /\ op[r] \in peers /\ At(r, "register", "send")
               /\ registry' = [registry EXCEPT ![r] = tui[op[r]]]
               /\ UNCHANGED <<result, granted, pending>>
      <3>1. pc' \in [Requests -> Pcs] /\ SlotsMatch' BY <2>2, <1>0, MoveType DEF At
      <3>2. tui[op[r]] \in Tuis BY <2>2 DEF TypeOK
      <3>3. registry' \in [Requests -> Tuis \cup {Nobody}] BY <2>2, <3>2 DEF TypeOK
      <3> QED BY <1>6, <2>2, <3>1, <3>3 DEF TypeOK, Register, tuiVars
    <2> QED BY <1>6, <2>1, <2>2 DEF Register
  <1>7. CASE Send(r)
    <2>0. op[r] \in Sessions \cup {Nobody} /\ Msg("job", r) \in Message
      BY MsgType DEF TypeOK
    <2>1. CASE Alive(op[r])
      <3>1. pc' \in [Requests -> Pcs] /\ SlotsMatch'
        BY <1>7, <2>1, <1>0, MoveType DEF Send, At
      <3>2. inbox' \in [Sessions -> Seq(Message)] BY <1>7, <2>0, <2>1, PostType DEF Send
      <3>3. Countdown(r) \in BOOLEAN BY DEF Countdown
      <3> QED BY <1>7, <2>1, <3>1, <3>2, <3>3 DEF TypeOK, Send, tuiVars
    <2>2. CASE ~Alive(op[r])
      <3>1. pc[r] \in Held /\ Lost(r) BY <1>0, <1>7, <2>2 DEF Send
      <3> QED BY <1>7, <2>2, <3>1, LostType DEF TypeOK, Send, tuiVars
    <2> QED BY <2>1, <2>2
  <1>8. CASE TakeAnswer(r) \/ TakeCancel(r)
    <2>1. replies[r] \in Seq({"approved", "denied", "cancel"}) /\ replies[r] # <<>>
      BY <1>8 DEF TypeOK, TakeAnswer, TakeCancel
    <2>2. Tail(replies[r]) \in Seq({"approved", "denied", "cancel"}) BY <2>1, RangeTail
    <2>3. replies' = [replies EXCEPT ![r] = Tail(replies[r])]
      BY <1>8 DEF TakeAnswer, TakeCancel
    <2>4. replies' \in [Requests -> Seq({"approved", "denied", "cancel"})]
      BY <2>2, <2>3 DEF TypeOK
    <2>5. CASE TakeAnswer(r)
      <3>1. Head(replies[r]) \in {"approved", "denied", "error"} BY <2>5 DEF TakeAnswer, Answers
      <3> QED BY <2>4, <2>5, <3>1, FinishType DEF TypeOK, TakeAnswer, tuiVars
    <2>6. CASE TakeCancel(r)
      BY <2>4, <2>6 DEF TypeOK, TakeCancel, SlotsMatch, sessionVars, tuiVars
    <2> QED BY <1>8, <2>5, <2>6
  <1>9. CASE Poll(r)
    <2>1. pc' \in [Requests -> Pcs] /\ SlotsMatch' BY <1>9, <1>0, MoveType DEF Poll, At
    <2> QED BY <1>9, <2>1 DEF TypeOK, Poll, sessionVars, tuiVars
  <1>10. CASE Look(r)
    <2>0. op[r] \in Sessions \cup {Nobody} /\ Msg("withdraw", r) \in Message
          /\ pc[r] \in Held
      BY <1>0, <1>10, MsgType DEF TypeOK, Look
    <2>1. CASE Lost(r) /\ UNCHANGED inbox
      BY <1>10, <2>0, <2>1, LostType DEF TypeOK, Look, tuiVars
    <2>2. CASE Withdraw(r)
      <3>1. inbox' \in [Sessions -> Seq(Message)] BY <2>0, <2>2, PostType DEF Withdraw
      <3>2. Finish(r, "error") BY <2>2 DEF Withdraw
      <3> QED BY <1>10, <3>1, <3>2, FinishType DEF TypeOK, Look, tuiVars
    <2>3. CASE At(r, "polled", "await")
                 /\ UNCHANGED <<result, granted, pending, registry, inbox>>
      <3>1. pc' \in [Requests -> Pcs] /\ SlotsMatch' BY <2>3, <1>0, MoveType DEF At
      <3> QED BY <1>10, <2>3, <3>1 DEF TypeOK, Look, tuiVars
    <2> QED BY <1>10, <2>1, <2>2, <2>3 DEF Look
  <1>11. CASE EndGrants(r)
    <2>1. inbox' \in [Sessions -> Seq(Message)] BY <1>11, EndGrantsSent DEF Sent
    <2> QED BY <1>11, <2>1 DEF TypeOK, SlotsMatch, EndGrants, tuiVars
  <1>12. CASE Leave(r)
    BY <1>12 DEF TypeOK, SlotsMatch, Leave, sessionVars, tuiVars
  <1> QED BY <1>1, <1>2, <1>3, <1>4, <1>5, <1>6, <1>7, <1>8, <1>9, <1>10, <1>11, <1>12
          DEF RequesterStep

\* Where no thread moves, the slots stay as they are.
LEMMA SlotsKept ==
  ASSUME SlotsMatch, UNCHANGED <<pc, pending>> PROVE SlotsMatch'
  BY DEF SlotsMatch

\* The actions of a session thread.
LEMMA SessionTypes ==
  ASSUME TypeOK, SlotsMatch, NEW s \in Sessions, Attach(s) \/ SessionStep(s)
  PROVE  TypeOK' /\ SlotsMatch'
  <1> DEFINE h == Head(inbox[s])
  <1>1. CASE Attach(s)
    BY <1>1, SlotsKept DEF TypeOK, Attach, requestVars
  <1>2. CASE ServeJob(s)
    <2>1. Serve(s, {"job"}) BY <1>2 DEF ServeJob
    <2>2. inbox' \in [Sessions -> Seq(Message)] /\ h \in Message /\ h.type \in {"job"}
      BY <2>1, ServeType
    <2>3. h.req \in Requests BY <2>2, MessageReq
    <2>4. waiting' \in [Sessions -> SUBSET Requests] BY <1>2, <2>3 DEF TypeOK, ServeJob
    <2>5. handler' \in [Sessions ->
                          [Requests -> {"none", "counting", "asking", "check", "work"}]]
      BY <1>2, <2>3 DEF TypeOK, ServeJob
    <2> QED BY <1>2, <2>2, <2>4, <2>5, SlotsKept DEF TypeOK, ServeJob, requestVars
  <1>3. CASE ServeWithdraw(s)
    <2>1. Serve(s, {"withdraw"}) BY <1>3 DEF ServeWithdraw
    <2>2. inbox' \in [Sessions -> Seq(Message)] /\ h \in Message /\ h.type \in {"withdraw"}
      BY <2>1, ServeType
    <2>3. h.req \in Requests BY <2>2, MessageReq
    <2>4. waiting' \in [Sessions -> SUBSET Requests] BY <1>3, <2>3 DEF TypeOK, ServeWithdraw
    <2>5. handler' \in [Sessions ->
                          [Requests -> {"none", "counting", "asking", "check", "work"}]]
      BY <1>3, <2>3 DEF TypeOK, ServeWithdraw
    <2> QED BY <1>3, <2>2, <2>4, <2>5, SlotsKept DEF TypeOK, ServeWithdraw, requestVars
  <1>4. CASE ServeAnswer(s) \/ ServeCancel(s)
    <2>1. PICK types \in {Answers, {"cancel"}} : Serve(s, types)
      BY <1>4 DEF ServeAnswer, ServeCancel
    <2>2. inbox' \in [Sessions -> Seq(Message)] /\ h \in Message /\ h.type \in types
      BY <2>1, ServeType
    <2>3. h.type \in {"approved", "denied", "cancel"} BY <2>1, <2>2 DEF Answers
    <2>4. h.req \in Requests BY <2>2, <2>3, MessageReq
    <2>5. replies[h.req] \in Seq({"approved", "denied", "cancel"}) BY <2>4 DEF TypeOK
    <2>6. \A a \in {"approved", "denied", "cancel"} :
            Append(replies[h.req], a) \in Seq({"approved", "denied", "cancel"})
      BY <2>5, RangeAppend
    <2>7. ASSUME NEW a \in {"approved", "denied", "cancel"},
                 replies' = [replies EXCEPT ![h.req] = Append(replies[h.req], a)]
          PROVE  replies' \in [Requests -> Seq({"approved", "denied", "cancel"})]
      BY <2>4, <2>6, <2>7 DEF TypeOK
    <2>8. CASE ServeAnswer(s)
      <3>1. replies' \in [Requests -> Seq({"approved", "denied", "cancel"})]
        <4>1. CASE replies' = replies BY <4>1 DEF TypeOK
        <4>2. CASE replies' = [replies EXCEPT ![h.req] = Append(replies[h.req], h.type)]
          BY <2>3, <2>7, <4>2
        <4> QED BY <2>8, <4>1, <4>2 DEF ServeAnswer
      <3>2. waiting' \in [Sessions -> SUBSET Requests]
            /\ registry' \in [Requests -> Tuis \cup {Nobody}]
        <4>1. CASE UNCHANGED <<waiting, registry>> BY <4>1 DEF TypeOK
        <4>2. CASE /\ waiting' = [waiting EXCEPT ![s] = @ \ {h.req}]
                   /\ registry' = [registry EXCEPT ![h.req] = Nobody]
          BY <2>4, <4>2 DEF TypeOK
        <4> QED BY <2>8, <4>1, <4>2 DEF ServeAnswer
      <3> QED BY <2>8, <2>2, <3>1, <3>2, SlotsKept DEF TypeOK, ServeAnswer, tuiVars
    <2>9. CASE ServeCancel(s)
      <3>1. replies' \in [Requests -> Seq({"approved", "denied", "cancel"})]
        <4>1. CASE replies' = replies BY <4>1 DEF TypeOK
        <4>2. CASE replies' = [replies EXCEPT ![h.req] = Append(replies[h.req], "cancel")]
          BY <2>7, <4>2
        <4> QED BY <2>9, <4>1, <4>2 DEF ServeCancel
      <3> QED BY <2>9, <2>2, <3>1, SlotsKept DEF TypeOK, ServeCancel, tuiVars
    <2> QED BY <1>4, <2>8, <2>9
  <1>5. CASE ServeGrantEnded(s)
    <2>1. Serve(s, {"grantEnded"}) BY <1>5 DEF ServeGrantEnded
    <2>2. inbox' \in [Sessions -> Seq(Message)] BY <2>1, ServeType
    <2>3. signers' \in [Tuis -> SUBSET Requests] BY <1>5 DEF TypeOK, ServeGrantEnded
    <2> QED BY <1>5, <2>2, <2>3, SlotsKept DEF TypeOK, ServeGrantEnded, requestVars
  <1>6. CASE Close(s)
    <2>1. inbox' \in [Sessions -> Seq(Message)]
      <3>1. CASE Serve(s, {"closed"}) BY <3>1, ServeType
      <3>2. CASE UNCHANGED inbox BY <3>2 DEF TypeOK
      <3> QED BY <1>6, <3>1, <3>2 DEF Close
    <2> QED BY <1>6, <2>1, SlotsKept DEF TypeOK, Close, requestVars, tuiVars
  <1>7. CASE Unlist(s)
    BY <1>7, SlotsKept DEF TypeOK, Unlist, requestVars, tuiVars
  <1>8. CASE Drop(s)
    <2>1. inbox' \in [Sessions -> Seq(Message)] BY <1>8 DEF TypeOK, Drop
    <2>2. waiting' \in [Sessions -> SUBSET Requests] BY <1>8 DEF TypeOK, Drop
    <2> QED BY <1>8, <2>1, <2>2, SlotsKept DEF TypeOK, Drop, requestVars, tuiVars
  <1> QED BY <1>1, <1>2, <1>3, <1>4, <1>5, <1>6, <1>7, <1>8 DEF SessionStep

\* What the TUI does, to the inboxes first.
TuiStep(s) ==
    \/ LoseChannel(s) \/ CloseTui(s)
    \/ \E r \in Requests :
         CancelCountdown(s, r) \/ Approve(s, r) \/ Deny(s, r) \/ HandlerStep(s, r)

\* The TUI sends answers, cancellations and its end.
LEMMA TuiSent ==
  ASSUME TypeOK, NEW s \in Sessions, TuiStep(s)
  PROVE  Sent({"cancel", "denied", "approved", "closed"})
  <1>1. ASSUME NEW m \in Message, Upward(s, m),
               m.type \in {"cancel", "denied", "approved", "closed"}
        PROVE  Sent({"cancel", "denied", "approved", "closed"})
    <2>1. Sent({m.type}) BY <1>1, UpwardSent
    <2> QED BY <1>1, <2>1 DEF Sent
  <1>2. ASSUME UNCHANGED inbox PROVE Sent({"cancel", "denied", "approved", "closed"})
    BY <1>2 DEF Sent, TypeOK
  <1>3. CASE LoseChannel(s)
    <2>1. Upward(s, Msg("closed", Nobody)) BY <1>3 DEF LoseChannel, Upward
    <2> QED BY <1>1, <2>1, ClosedType
  <1>4. CASE CloseTui(s) BY <1>4, CloseTuiSent DEF Sent
  <1>5. ASSUME NEW r \in Requests,
               CancelCountdown(s, r) \/ Approve(s, r) \/ Deny(s, r) \/ HandlerStep(s, r)
        PROVE  Sent({"cancel", "denied", "approved", "closed"})
    <2>1. \/ \E t \in {"cancel", "denied", "approved"} : Upward(s, Msg(t, r))
          \/ UNCHANGED inbox
      BY <1>5 DEF CancelCountdown, Approve, Deny, HandlerStep, CheckClosure, FinishWork,
         sessionVars
    <2>2. ASSUME NEW t \in {"cancel", "denied", "approved"}, Upward(s, Msg(t, r))
          PROVE  Sent({"cancel", "denied", "approved", "closed"})
      BY <1>1, <2>2, MsgType
    <2> QED BY <1>2, <2>1, <2>2
  <1> QED BY <1>3, <1>4, <1>5 DEF TuiStep

\* The actions of the TUI.
LEMMA TuiTypes ==
  ASSUME TypeOK, SlotsMatch, NEW s \in Sessions, TuiStep(s)
  PROVE  TypeOK' /\ SlotsMatch'
  <1>1. inbox' \in [Sessions -> Seq(Message)] BY TuiSent DEF Sent
  <1>2. CASE LoseChannel(s)
    <2>1. handler' \in [Sessions ->
                          [Requests -> {"none", "counting", "asking", "check", "work"}]]
      BY <1>2 DEF LoseChannel, TypeOK
    <2> QED BY <1>1, <1>2, <2>1, SlotsKept DEF TypeOK, LoseChannel, requestVars
  <1>3. CASE CloseTui(s)
    <2>1. handler' \in [Sessions ->
                          [Requests -> {"none", "counting", "asking", "check", "work"}]]
      BY <1>3 DEF CloseTui, TypeOK
    <2>2. signers' \in [Tuis -> SUBSET Requests] BY <1>3 DEF CloseTui, TypeOK
    <2>3. up' \in [Sessions -> BOOLEAN] BY <1>3 DEF CloseTui, TypeOK
    <2> QED BY <1>1, <1>3, <2>1, <2>2, <2>3, SlotsKept DEF TypeOK, CloseTui, requestVars
  <1>4. ASSUME NEW r \in Requests,
               CancelCountdown(s, r) \/ Approve(s, r) \/ Deny(s, r) \/ HandlerStep(s, r)
        PROVE  TypeOK' /\ SlotsMatch'
    <2>1. handler' \in [Sessions ->
                          [Requests -> {"none", "counting", "asking", "check", "work"}]]
      <3>1. PICK v \in {"none", "asking", "check", "work"} :
              handler' = [handler EXCEPT ![s][r] = v]
        BY <1>4 DEF CancelCountdown, Approve, Deny, HandlerStep, CheckClosure, FinishWork
      <3> QED BY <3>1 DEF TypeOK
    <2>2. CASE CancelCountdown(s, r) \/ Deny(s, r)
      BY <1>1, <2>1, <2>2, SlotsKept DEF TypeOK, CancelCountdown, Deny, requestVars
    <2>3. CASE Approve(s, r)
      BY <2>1, <2>3, SlotsKept DEF TypeOK, Approve, requestVars, sessionVars
    <2>4. CASE CheckClosure(s, r)
      <3>1. registry' \in [Requests -> Tuis \cup {Nobody}]
        <4>1. CASE UNCHANGED registry BY <4>1 DEF TypeOK
        <4>2. CASE registry' = [registry EXCEPT ![r] = Nobody] BY <4>2 DEF TypeOK
        <4> QED BY <2>4, <4>1, <4>2 DEF CheckClosure
      <3> QED BY <1>1, <2>1, <2>4, <3>1, SlotsKept DEF TypeOK, CheckClosure, requestVars
    <2>5. CASE FinishWork(s, r)
      <3>1. signers' \in [Tuis -> SUBSET Requests] BY <2>5 DEF TypeOK, FinishWork
      <3> QED BY <1>1, <2>1, <2>5, <3>1, SlotsKept DEF TypeOK, FinishWork, requestVars
    <2> QED BY <1>4, <2>2, <2>3, <2>4, <2>5 DEF HandlerStep
  <1> QED BY <1>2, <1>3, <1>4 DEF TuiStep

\* The next-state relation by actor.
LEMMA Actors ==
  ASSUME [Next]_vars
  PROVE  \/ \E r \in Requests : Ask(r) \/ RequesterStep(r) \/ Leave(r)
         \/ \E s \in Sessions : Attach(s) \/ SessionStep(s)
         \/ \E s \in Sessions : TuiStep(s)
         \/ UNCHANGED vars
  BY DEF Next, TuiStep

\* Every step keeps the types and the slots.
LEMMA TypeStep ==
  ASSUME TypeOK, SlotsMatch, [Next]_vars PROVE TypeOK' /\ SlotsMatch'
  <1>1. ASSUME UNCHANGED vars PROVE TypeOK' /\ SlotsMatch'
    BY <1>1 DEF TypeOK, SlotsMatch, vars, requestVars, sessionVars, tuiVars
  <1> QED BY <1>1, Actors, RequesterTypes, SessionTypes, TuiTypes

\* The initial state is typed and counts no slot.
LEMMA InitTypes == Init => TypeOK /\ SlotsMatch
  <1> SUFFICES ASSUME Init PROVE TypeOK /\ SlotsMatch OBVIOUS
  <1>1. {r \in Requests : pc[r] \in Held} = {} BY DEF Init, Held
  <1>2. SlotsMatch BY <1>1, FS_EmptySet DEF SlotsMatch, Init
  <1>3. pending \in 0..MaxPending BY PendingAssumption DEF Init
  <1>4. kind \in [Requests -> AllKinds] BY KindsAssumption DEF Init
  <1>5. tui \in [Sessions -> Tuis] BY OwnersAssumption DEF Init
  <1>6. inbox \in [Sessions -> Seq(Message)] BY DEF Init
  <1>7. replies \in [Requests -> Seq({"approved", "denied", "cancel"})] BY DEF Init
  <1>8. handler \in [Sessions -> [Requests -> {"none", "counting", "asking", "check", "work"}]]
    BY DEF Init
  <1>9. TypeOK BY <1>3, <1>4, <1>5, <1>6, <1>7, <1>8 DEF Init, TypeOK, Pcs
  <1> QED BY <1>2, <1>9

\* Every variable keeps its type: at most MAX_PENDING slots are counted, and
\* the count never goes below zero on any path that ends a request.
THEOREM TypeCorrect == Spec => []TypeOK
  <1>1. TypeOK /\ SlotsMatch /\ [Next]_vars => (TypeOK /\ SlotsMatch)' BY TypeStep
  <1> QED BY <1>1, InitTypes, PTL DEF Spec

\* The slots that are counted are those of the threads in a request, for any
\* number of requests: claim and the Pending guard never disagree.
THEOREM SlotsAreCounted == Spec => []SlotsMatch
  <1>1. TypeOK /\ SlotsMatch /\ [Next]_vars => (TypeOK /\ SlotsMatch)' BY TypeStep
  <1> QED BY <1>1, InitTypes, PTL DEF Spec

-----------------------------------------------------------------------------
(* Where a request is asked, and who owns a closure request.               *)

\* What a step of a requester thread leaves alone, and what it may send.
LEMMA RequesterEffect ==
  ASSUME TypeOK, NEW r \in Requests, Ask(r) \/ RequesterStep(r) \/ Leave(r)
  PROVE  /\ UNCHANGED <<kind, sess, tui, peers, waiting>>
         /\ attached' \subseteq attached
         /\ \A q \in Requests : q # r => /\ pc'[q] = pc[q] /\ op'[q] = op[q]
                                         /\ registry'[q] = registry[q]
                                         /\ replies'[q] = replies[q]
         /\ pc[r] = "done" => pc'[r] = "done"
         /\ Sent({"job", "withdraw", "grantEnded"})
         /\ \A z \in Sessions : \A m \in Range(inbox'[z]) :
              \/ m \in Range(inbox[z]) \/ m.type = "grantEnded"
              \/ m = Msg("job", r) /\ z = op[r] /\ Send(r) /\ pc'[r] = "await" /\ op' = op
              \/ m = Msg("withdraw", r) /\ pc'[r] = "done"
  <1>1. /\ UNCHANGED <<kind, sess, tui, peers, waiting>>
        /\ attached' \subseteq attached
    BY DEF Ask, RequesterStep, Leave, Claim, Seek, SeekGone, Number, Register, Send,
       TakeAnswer, TakeCancel, Poll, Look, EndGrants, sessionVars
  <1>2. ASSUME NEW q \in Requests, q # r
        PROVE  pc'[q] = pc[q] /\ op'[q] = op[q] /\ registry'[q] = registry[q]
               /\ replies'[q] = replies[q]
    BY <1>2 DEF TypeOK, Ask, RequesterStep, Leave, Claim, Seek, SeekGone, Number, Register,
       Send, TakeAnswer, TakeCancel, Poll, Look, Withdraw, Lost, Finish, At, EndGrants,
       sessionVars
  <1>3. pc[r] = "done" => pc'[r] = "done"
    BY DEF TypeOK, Ask, RequesterStep, Leave, Claim, Seek, SeekGone, Number, Register,
       Send, TakeAnswer, TakeCancel, Poll, Look, EndGrants, At
  <1>4. CASE UNCHANGED inbox
    BY <1>1, <1>2, <1>3, <1>4 DEF Sent, TypeOK
  <1>5. op[r] \in Sessions \cup {Nobody} BY DEF TypeOK
  <1>6. CASE Send(r) /\ Alive(op[r])
    <2>1. Msg("job", r) \in Message /\ Msg("job", r).type = "job" BY MsgType
    <2>2. Post(op[r], Msg("job", r)) BY <1>6 DEF Send
    <2>3. pc'[r] = "await" /\ op' = op BY <1>6 DEF Send, At, TypeOK
    <2>4. /\ inbox' \in [Sessions -> Seq(Message)]
          /\ \A z \in Sessions :
               Range(inbox'[z]) = IF z = op[r] /\ Alive(op[r])
                                  THEN Range(inbox[z]) \cup {Msg("job", r)}
                                  ELSE Range(inbox[z])
          /\ \A z \in Sessions : sess[z] = "off" => inbox'[z] = inbox[z]
      BY <1>5, <2>1, <2>2, PostType
    <2>5. Sent({"job", "withdraw", "grantEnded"}) BY <2>1, <2>4 DEF Sent
    <2> QED BY <1>1, <1>2, <1>3, <1>6, <2>3, <2>4, <2>5
  <1>7. CASE Look(r) /\ Withdraw(r)
    <2>1. Msg("withdraw", r) \in Message /\ Msg("withdraw", r).type = "withdraw" BY MsgType
    <2>2. Post(op[r], Msg("withdraw", r)) BY <1>7 DEF Withdraw
    <2>3. pc'[r] = "done" BY <1>7 DEF Withdraw, Finish, TypeOK
    <2>4. /\ inbox' \in [Sessions -> Seq(Message)]
          /\ \A z \in Sessions :
               Range(inbox'[z]) = IF z = op[r] /\ Alive(op[r])
                                  THEN Range(inbox[z]) \cup {Msg("withdraw", r)}
                                  ELSE Range(inbox[z])
          /\ \A z \in Sessions : sess[z] = "off" => inbox'[z] = inbox[z]
      BY <1>5, <2>1, <2>2, PostType
    <2>5. Sent({"job", "withdraw", "grantEnded"}) BY <2>1, <2>4 DEF Sent
    <2> QED BY <1>1, <1>2, <1>3, <2>3, <2>4, <2>5
  <1>8. CASE EndGrants(r)
    <2>1. Sent({"grantEnded"}) BY <1>8, EndGrantsSent
    <2>2. Sent({"job", "withdraw", "grantEnded"}) BY <2>1 DEF Sent
    <2>3. \A z \in Sessions : \A m \in Range(inbox'[z]) :
            m \in Range(inbox[z]) \/ m.type = "grantEnded"
      BY <2>1 DEF Sent
    <2> QED BY <1>1, <1>2, <1>3, <2>2, <2>3
  <1>9. \/ UNCHANGED inbox
        \/ Send(r) /\ Alive(op[r])
        \/ Look(r) /\ Withdraw(r)
        \/ EndGrants(r)
    <2>1. CASE Send(r) BY <2>1 DEF Send
    <2>2. CASE Look(r) BY <2>2 DEF Look
    <2>3. CASE Ask(r) \/ Claim(r) \/ SeekGone(r) \/ Number(r) \/ Register(r)
      BY <2>3 DEF Ask, Claim, SeekGone, Number, Register
    <2>4. CASE Seek(r) \/ TakeAnswer(r) \/ TakeCancel(r) \/ Poll(r) \/ Leave(r)
      BY <2>4 DEF Seek, TakeAnswer, TakeCancel, Poll, Leave, sessionVars
    <2> QED BY <2>1, <2>2, <2>3, <2>4 DEF RequesterStep
  <1> QED BY <1>4, <1>6, <1>7, <1>8, <1>9

\* A session thread takes at most one message; jobs move from the inbox to
\* `waiting`, and only answers, withdrawals and the end of the session take a
\* request out of its hands.
LEMMA SessionEffect ==
  ASSUME TypeOK, NEW s \in Sessions, Attach(s) \/ SessionStep(s)
  PROVE  /\ UNCHANGED <<pc, kind, op, tui>>
         /\ \A z \in Sessions : Range(inbox'[z]) \subseteq Range(inbox[z])
         /\ \A z \in Sessions : sess'[z] = "off" => sess[z] = "off" /\ z # s
         /\ \A z \in Sessions : z # s => inbox'[z] = inbox[z] /\ waiting'[z] = waiting[z]
         /\ \A z \in Sessions, q \in Requests : AskedAt(z, q)' => AskedAt(z, q)
         /\ \A q \in Requests : registry'[q] \in {registry[q], Nobody}
  <1> DEFINE h == Head(inbox[s])
  <1>1. UNCHANGED <<pc, kind, op, tui>>
    BY DEF Attach, SessionStep, ServeJob, ServeWithdraw, ServeAnswer, ServeCancel,
       ServeGrantEnded, Close, Unlist, Drop, requestVars
  <1>2. \A z \in Sessions : sess'[z] = "off" => sess[z] = "off" /\ z # s
    BY DEF TypeOK, Attach, SessionStep, ServeJob, ServeWithdraw, ServeAnswer, ServeCancel,
       ServeGrantEnded, Serve, Close, Unlist, Drop
  <1>3. \A q \in Requests : registry'[q] \in {registry[q], Nobody}
    BY DEF TypeOK, Attach, SessionStep, ServeJob, ServeWithdraw, ServeAnswer, ServeCancel,
       ServeGrantEnded, Close, Unlist, Drop
  <1>4. ASSUME NEW z \in Sessions, z # s
        PROVE  inbox'[z] = inbox[z] /\ waiting'[z] = waiting[z]
    BY <1>4 DEF TypeOK, Attach, SessionStep, ServeJob, ServeWithdraw, ServeAnswer,
       ServeCancel, ServeGrantEnded, Serve, Close, Unlist, Drop
  <1>5. ASSUME NEW types, Serve(s, types)
        PROVE  /\ Range(inbox[s]) = {h} \cup Range(inbox'[s])
               /\ h \in Message /\ h.type \in types
    BY <1>5, ServeType
  <1>6. Range(inbox'[s]) \subseteq Range(inbox[s])
    <2>1. CASE Drop(s)
      <3>1. inbox'[s] = <<>> BY <2>1 DEF Drop, TypeOK
      <3> QED BY <3>1 DEF Range
    <2>2. CASE UNCHANGED inbox BY <2>2
    <2>3. CASE \E types \in {{"job"}, {"withdraw"}, Answers, {"cancel"}, {"grantEnded"},
                             {"closed"}} : Serve(s, types)
      BY <1>5, <2>3
    <2> QED BY <2>1, <2>2, <2>3 DEF Attach, SessionStep, ServeJob, ServeWithdraw,
            ServeAnswer, ServeCancel, ServeGrantEnded, Close, Unlist
  <1>7. ASSUME NEW q \in Requests, AskedAt(s, q)' PROVE AskedAt(s, q)
    <2>1. CASE InInbox(s, {"job"}, q)' BY <1>6, <2>1 DEF AskedAt, InInbox
    <2>2. CASE q \in waiting'[s]
      <3>1. CASE q \in waiting[s] BY <3>1 DEF AskedAt
      <3>2. CASE q \notin waiting[s]
        <4>1. ServeJob(s) /\ q = h.req
          BY <2>2, <3>2 DEF TypeOK, Attach, SessionStep, ServeJob, ServeWithdraw,
             ServeAnswer, ServeCancel, ServeGrantEnded, Close, Unlist, Drop
        <4>2. Serve(s, {"job"}) BY <4>1 DEF ServeJob
        <4> QED BY <1>5, <4>1, <4>2 DEF AskedAt, InInbox
      <3> QED BY <3>1, <3>2
    <2> QED BY <1>7, <2>1, <2>2 DEF AskedAt
  <1>8. ASSUME NEW z \in Sessions, z # s, NEW q \in Requests, AskedAt(z, q)'
        PROVE  AskedAt(z, q)
    BY <1>4, <1>8 DEF AskedAt, InInbox
  <1> QED BY <1>1, <1>2, <1>3, <1>4, <1>6, <1>7, <1>8

\* The TUI changes no request and sends no job and no withdrawal.
LEMMA TuiEffect ==
  ASSUME TypeOK, NEW s \in Sessions, TuiStep(s)
  PROVE  /\ UNCHANGED <<requestVars, sess, tui, attached, peers, waiting>>
         /\ Sent({"cancel", "denied", "approved", "closed"})
         /\ \A q \in Requests : registry'[q] \in {registry[q], Nobody}
  <1>1. UNCHANGED <<requestVars, sess, tui, attached, peers, waiting>>
    BY DEF TuiStep, LoseChannel, CloseTui, CancelCountdown, Approve, Deny, HandlerStep,
       CheckClosure, FinishWork, sessionVars
  <1>2. \A q \in Requests : registry'[q] \in {registry[q], Nobody}
    BY DEF TypeOK, TuiStep, LoseChannel, CloseTui, CancelCountdown, Approve, Deny,
       HandlerStep, CheckClosure, FinishWork, sessionVars
  <1> QED BY <1>1, <1>2, TuiSent

\* Every step keeps sessions listed only while they are served.
LEMMA LifecycleStep ==
  ASSUME TypeOK, Lifecycle, [Next]_vars PROVE Lifecycle'
  <1>1. ASSUME UNCHANGED <<sess, waiting>>, attached' \subseteq attached,
               \A z \in Sessions : sess[z] = "off" => inbox'[z] = inbox[z]
        PROVE  Lifecycle'
    BY <1>1 DEF Lifecycle
  <1>2. ASSUME NEW r \in Requests, Ask(r) \/ RequesterStep(r) \/ Leave(r) PROVE Lifecycle'
    BY <1>1, <1>2, RequesterEffect DEF Sent
  <1>3. ASSUME NEW s \in Sessions, TuiStep(s) PROVE Lifecycle'
    BY <1>1, <1>3, TuiEffect DEF Sent
  <1>4. ASSUME NEW s \in Sessions, Attach(s) \/ SessionStep(s) PROVE Lifecycle'
    <2>1. ASSUME NEW z \in Sessions, sess'[z] = "off"
          PROVE  inbox'[z] = <<>> /\ waiting'[z] = {}
      BY <1>4, <2>1, SessionEffect DEF Lifecycle
    <2>2. ASSUME NEW z \in Sessions, z \in attached' PROVE sess'[z] \in {"open", "closing"}
      BY <1>4, <2>2 DEF TypeOK, Lifecycle, Attach, SessionStep, ServeJob, ServeWithdraw,
         ServeAnswer, ServeCancel, ServeGrantEnded, Serve, Close, Unlist, Drop
    <2> QED BY <2>1, <2>2 DEF Lifecycle
  <1>5. ASSUME UNCHANGED vars PROVE Lifecycle'
    BY <1>1, <1>5 DEF vars, sessionVars
  <1> QED BY <1>2, <1>3, <1>4, <1>5, Actors

\* Every step keeps requests addressed to sessions that have attached.
LEMMA AddressedStep ==
  ASSUME TypeOK, Lifecycle, Addressed, [Next]_vars PROVE Addressed'
  <1>1. ASSUME NEW r \in Requests, Ask(r) \/ RequesterStep(r) \/ Leave(r) PROVE Addressed'
    <2>1. /\ UNCHANGED <<sess, kind>>
          /\ \A q \in Requests : q # r => pc'[q] = pc[q] /\ op'[q] = op[q]
      BY <1>1, RequesterEffect
    <2>2. CASE Seek(r)
      <3>1. PICK s \in Sessions : s \in attached /\ op' = [op EXCEPT ![r] = s]
        BY <2>2 DEF Seek, Latest, IsAttached
      <3>2. op'[r] = s /\ sess[s] # "off" /\ s # Nobody
        BY <3>1, NobodyAssumption DEF TypeOK, Lifecycle
      <3>3. pc'[r] = "register" => kind[r] = "closure"
        BY <2>2 DEF Seek, At, Sending, TypeOK
      <3> QED BY <2>1, <3>2, <3>3 DEF Addressed
    <2>3. CASE ~Seek(r)
      <3>1. op' = op BY <1>1, <2>3 DEF Ask, RequesterStep, Leave, Claim, SeekGone, Number,
            Register, Send, TakeAnswer, TakeCancel, Poll, Look, EndGrants
      <3>2. pc'[r] \in {"number", "register", "send", "await", "polled"} =>
              pc[r] \in {"number", "register", "send", "await", "polled"}
        BY <1>1, <2>3 DEF TypeOK, Ask, RequesterStep, Leave, Claim, SeekGone, Number,
           Register, Send, TakeAnswer, TakeCancel, Poll, Look, EndGrants, Finish, Lost,
           Withdraw, At
      <3>3. pc'[r] = "register" => kind[r] = "closure"
        BY <1>1, <2>3 DEF TypeOK, Addressed, Ask, RequesterStep, Leave, Claim, SeekGone,
           Number, Register, Send, TakeAnswer, TakeCancel, Poll, Look, EndGrants, Finish,
           Lost, Withdraw, At, Sending
      <3> QED BY <2>1, <3>1, <3>2, <3>3 DEF Addressed
    <2> QED BY <2>2, <2>3
  <1>2. ASSUME NEW s \in Sessions, Attach(s) \/ SessionStep(s) PROVE Addressed'
    <2>1. /\ UNCHANGED <<pc, kind, op>>
          /\ \A z \in Sessions : sess'[z] = "off" => sess[z] = "off"
      BY <1>2, SessionEffect
    <2>2. \A r \in Requests : op[r] \in Sessions \cup {Nobody} BY DEF TypeOK
    <2> QED BY <2>1, <2>2 DEF Addressed
  <1>3. ASSUME NEW s \in Sessions, TuiStep(s) PROVE Addressed'
    BY <1>3, TuiEffect DEF Addressed, requestVars
  <1>4. ASSUME UNCHANGED vars PROVE Addressed'
    BY <1>4 DEF Addressed, vars, requestVars, sessionVars
  <1> QED BY <1>1, <1>2, <1>3, <1>4, Actors

\* Every step keeps withdrawals to requests that are over.
LEMMA WithdrawnStep ==
  ASSUME TypeOK, WithdrawnOver, [Next]_vars PROVE WithdrawnOver'
  <1>1. ASSUME NEW r \in Requests, Ask(r) \/ RequesterStep(r) \/ Leave(r) PROVE WithdrawnOver'
    <2> SUFFICES ASSUME NEW q \in Requests, NEW z \in Sessions,
                        NEW m \in Range(inbox'[z]), m.type \in {"withdraw"}, m.req = q
                 PROVE  pc'[q] = "done"
      BY DEF WithdrawnOver, InInbox
    <2>1. CASE m \in Range(inbox[z])
      <3>1. pc[q] = "done" BY <2>1 DEF WithdrawnOver, InInbox
      <3> QED BY <1>1, <3>1, RequesterEffect
    <2>2. CASE m = Msg("withdraw", r) /\ pc'[r] = "done"
      BY <2>2, MsgType
    <2>3. Msg("job", r).type = "job" BY MsgType
    <2> QED BY <1>1, <2>1, <2>2, <2>3, RequesterEffect
  <1>2. ASSUME NEW s \in Sessions, Attach(s) \/ SessionStep(s) PROVE WithdrawnOver'
    <2>1. /\ UNCHANGED pc
          /\ \A z \in Sessions : Range(inbox'[z]) \subseteq Range(inbox[z])
      BY <1>2, SessionEffect
    <2> QED BY <2>1 DEF WithdrawnOver, InInbox
  <1>3. ASSUME NEW s \in Sessions, TuiStep(s) PROVE WithdrawnOver'
    <2>1. UNCHANGED pc BY <1>3, TuiEffect DEF requestVars
    <2>2. \A z \in Sessions : \A m \in Range(inbox'[z]) :
            m \in Range(inbox[z]) \/ m.type \in {"cancel", "denied", "approved", "closed"}
      BY <1>3, TuiSent DEF Sent
    <2> QED BY <2>1, <2>2 DEF WithdrawnOver, InInbox
  <1>4. ASSUME UNCHANGED vars PROVE WithdrawnOver'
    BY <1>4 DEF WithdrawnOver, InInbox, vars, requestVars, sessionVars
  <1> QED BY <1>1, <1>2, <1>3, <1>4, Actors

\* Every step keeps closure requests registered for the TUI they went to.
LEMMA ClosureStep ==
  ASSUME TypeOK, Addressed, ClosureOwner, [Next]_vars PROVE ClosureOwner'
  <1>1. ASSUME NEW r \in Requests, Ask(r) \/ RequesterStep(r) \/ Leave(r) PROVE ClosureOwner'
    <2>1. /\ UNCHANGED <<kind, tui>>
          /\ \A q \in Requests : q # r => pc'[q] = pc[q] /\ op'[q] = op[q]
                                          /\ registry'[q] = registry[q]
      BY <1>1, RequesterEffect
    <2>2. \/ registry'[r] = Nobody
          \/ /\ pc'[r] \in Held /\ kind[r] = "closure"
             /\ pc'[r] \in {"send", "await", "polled"} => registry'[r] = tui[op'[r]]
      <3>0. \/ registry[r] = Nobody
            \/ /\ pc[r] \in Held /\ kind[r] = "closure"
               /\ pc[r] \in {"send", "await", "polled"} => registry[r] = tui[op[r]]
        BY DEF ClosureOwner
      <3>1. ASSUME NEW how, Finish(r, how) PROVE registry'[r] = Nobody
        BY <3>1 DEF Finish, TypeOK
      <3>2. CASE Register(r)
        <4>1. CASE op[r] \in peers
          BY <3>2, <4>1 DEF Register, At, Addressed, TypeOK, Held, Pcs
        <4>2. CASE op[r] \notin peers BY <3>1, <3>2, <4>2 DEF Register
        <4> QED BY <4>1, <4>2
      <3>3. CASE Ask(r) \/ Claim(r)
        BY <3>0, <3>1, <3>3 DEF Ask, Claim, At, Held, Pcs
      <3>4. CASE Seek(r)
        BY <3>0, <3>4 DEF Seek, At, Sending, TypeOK, Held, Pcs, sessionVars
      <3>5. CASE Number(r)
        BY <3>0, <3>1, <3>5 DEF Number, At, Sending, TypeOK, Held, Pcs
      <3>6. CASE SeekGone(r) \/ TakeAnswer(r)
        BY <3>1, <3>6 DEF SeekGone, TakeAnswer
      <3>7. ASSUME pc[r] \in Held, Lost(r)
            PROVE  registry'[r] = Nobody \/ (registry' = registry /\ pc'[r] = "seek")
        BY <3>1, <3>7 DEF Lost, TypeOK
      <3>8. CASE Send(r)
        <4>1. CASE Alive(op[r])
          BY <3>0, <3>8, <4>1 DEF Send, At, TypeOK, Held, Pcs
        <4>2. CASE ~Alive(op[r])
          <5>1. pc[r] \in Held /\ Lost(r) /\ "seek" \in Held
            BY <3>8, <4>2 DEF Send, Held, Pcs
          <5> QED BY <3>0, <3>7, <5>1
        <4> QED BY <4>1, <4>2
      <3>9. CASE Look(r)
        <4>0. pc[r] \in Held /\ "seek" \in Held BY <3>9 DEF Look, Held, Pcs
        <4>1. CASE Lost(r) BY <3>0, <3>7, <4>0, <4>1
        <4>2. CASE Withdraw(r) BY <3>1, <4>2 DEF Withdraw
        <4>3. CASE At(r, "polled", "await") /\ UNCHANGED registry
          BY <3>0, <3>9, <4>3 DEF Look, At, TypeOK, Held, Pcs
        <4> QED BY <3>9, <4>1, <4>2, <4>3 DEF Look
      <3>10. CASE Poll(r)
        BY <3>0, <3>10 DEF Poll, At, TypeOK, Held, Pcs, sessionVars
      <3>11. CASE TakeCancel(r) \/ EndGrants(r) \/ Leave(r)
        BY <3>0, <3>11 DEF TakeCancel, EndGrants, Leave, sessionVars
      <3> QED BY <1>1, <3>2, <3>3, <3>4, <3>5, <3>6, <3>8, <3>9, <3>10, <3>11
              DEF RequesterStep
    <2> QED BY <2>1, <2>2 DEF ClosureOwner
  <1>2. ASSUME NEW s \in Sessions, Attach(s) \/ SessionStep(s) PROVE ClosureOwner'
    <2>1. /\ UNCHANGED <<pc, kind, op, tui>>
          /\ \A q \in Requests : registry'[q] \in {registry[q], Nobody}
      BY <1>2, SessionEffect
    <2> QED BY <2>1 DEF ClosureOwner
  <1>3. ASSUME NEW s \in Sessions, TuiStep(s) PROVE ClosureOwner'
    <2>1. /\ UNCHANGED <<pc, kind, op, tui>>
          /\ \A q \in Requests : registry'[q] \in {registry[q], Nobody}
      BY <1>3, TuiEffect DEF requestVars
    <2> QED BY <2>1 DEF ClosureOwner
  <1>4. ASSUME UNCHANGED vars PROVE ClosureOwner'
    BY <1>4 DEF ClosureOwner, vars, requestVars, sessionVars
  <1> QED BY <1>1, <1>2, <1>3, <1>4, Actors

\* Every step keeps a request before the session it was sent to last.
LEMMA AskedStep ==
  ASSUME TypeOK, Lifecycle, AskedHere, [Next]_vars PROVE AskedHere'
  <1>1. ASSUME NEW r \in Requests, Ask(r) \/ RequesterStep(r) \/ Leave(r) PROVE AskedHere'
    <2> SUFFICES ASSUME NEW q \in Requests, NEW z \in attached', AskedAt(z, q)'
                 PROVE  op'[q] = z /\ pc'[q] \in {"await", "polled", "done"}
      BY DEF AskedHere
    <2>0. z \in Sessions /\ z \in attached BY <1>1, RequesterEffect DEF TypeOK
    <2>1. CASE AskedAt(z, q)
      <3>1. op[q] = z /\ pc[q] \in {"await", "polled", "done"} BY <2>0, <2>1 DEF AskedHere
      <3>2. CASE q # r BY <1>1, <3>1, <3>2, RequesterEffect
      <3>3. CASE q = r
        <4>1. IsAttached(op[r]) BY <2>0, <3>1, <3>3 DEF IsAttached
        <4>2. TakeAnswer(r) \/ TakeCancel(r) \/ Poll(r) \/ Look(r) \/ EndGrants(r) \/ Leave(r)
          BY <1>1, <3>1, <3>3 DEF Ask, RequesterStep, Claim, Seek, SeekGone, Number,
             Register, Send, At
        <4>3. op' = op
          BY <4>2 DEF TakeAnswer, TakeCancel, Poll, Look, EndGrants, Leave
        <4>4. pc'[r] \in {"await", "polled", "done"}
          BY <3>1, <3>3, <4>1, <4>2 DEF TakeAnswer, TakeCancel, Poll, Look, EndGrants,
             Leave, Withdraw, Finish, At, TypeOK
        <4> QED BY <3>1, <3>3, <4>3, <4>4
      <3> QED BY <3>2, <3>3
    <2>2. CASE ~AskedAt(z, q)
      <3>1. PICK m \in Range(inbox'[z]) : m.type = "job" /\ m.req = q
        BY <1>1, <2>2, RequesterEffect DEF AskedAt, InInbox
      <3>2. m \notin Range(inbox[z]) BY <2>2, <3>1 DEF AskedAt, InInbox
      <3>3. Msg("withdraw", r).type = "withdraw" /\ Msg("job", r).req = r BY MsgType
      <3>4. m = Msg("job", r) /\ z = op[r] /\ pc'[r] = "await" /\ op' = op
        BY <1>1, <2>0, <3>1, <3>2, <3>3, RequesterEffect
      <3> QED BY <3>1, <3>3, <3>4
    <2> QED BY <2>1, <2>2
  <1>2. ASSUME NEW s \in Sessions, Attach(s) \/ SessionStep(s) PROVE AskedHere'
    <2> SUFFICES ASSUME NEW q \in Requests, NEW z \in attached', AskedAt(z, q)'
                 PROVE  op'[q] = z /\ pc'[q] \in {"await", "polled", "done"}
      BY DEF AskedHere
    <2>1. \/ attached' = attached \cup {s} /\ sess[s] = "off"
          \/ attached' \subseteq attached
      BY <1>2 DEF Attach, SessionStep, ServeJob, ServeWithdraw, ServeAnswer, ServeCancel,
         ServeGrantEnded, Close, Unlist, Drop
    <2>2. z \in Sessions BY <2>1 DEF TypeOK
    <2>3. AskedAt(z, q) /\ UNCHANGED <<pc, op>> BY <1>2, <2>2, SessionEffect
    <2>4. CASE z \in attached BY <2>3, <2>4 DEF AskedHere
    <2>5. CASE z = s /\ sess[s] = "off"
      <3>1. inbox[s] = <<>> /\ waiting[s] = {} BY <2>5 DEF Lifecycle
      <3>2. Range(inbox[s]) = {} BY <3>1 DEF Range
      <3> QED BY <2>3, <2>5, <3>1, <3>2 DEF AskedAt, InInbox
    <2> QED BY <2>1, <2>4, <2>5
  <1>3. ASSUME NEW s \in Sessions, TuiStep(s) PROVE AskedHere'
    <2>1. UNCHANGED <<pc, op, attached, waiting>> BY <1>3, TuiEffect DEF requestVars
    <2>2. \A z \in Sessions : \A m \in Range(inbox'[z]) :
            m \in Range(inbox[z]) \/ m.type \in {"cancel", "denied", "approved", "closed"}
      BY <1>3, TuiSent DEF Sent
    <2>3. attached \subseteq Sessions BY DEF TypeOK
    <2> QED BY <2>1, <2>2, <2>3 DEF AskedHere, AskedAt, InInbox
  <1>4. ASSUME UNCHANGED vars PROVE AskedHere'
    BY <1>4 DEF AskedHere, AskedAt, InInbox, vars, requestVars, sessionVars
  <1> QED BY <1>1, <1>2, <1>3, <1>4, Actors

\* An answer to the request is in its reply channel.
Answered(r) == Range(replies[r]) \cap Answers # {}

\* Every step keeps a request that is waited for in the hands of its session,
\* or its answer in the reply channel.
LEMMA ForgottenStep ==
  ASSUME TypeOK, Lifecycle, Addressed, WithdrawnOver, NoneForgotten, [Next]_vars
  PROVE  NoneForgotten'
  <1>1. ASSUME NEW r \in Requests, Ask(r) \/ RequesterStep(r) \/ Leave(r) PROVE NoneForgotten'
    <2> SUFFICES ASSUME NEW q \in Requests, pc'[q] \in {"await", "polled"},
                        op'[q] \in attached'
                 PROVE  AskedAt(op[q], q)' \/ Answered(q)'
      BY DEF NoneForgotten, IsAttached, Answered
    <2>0. /\ op'[q] \in Sessions /\ op'[q] \in attached
          /\ \A z \in Sessions : AskedAt(z, q) => AskedAt(z, q)'
      BY <1>1, RequesterEffect DEF TypeOK, Sent, AskedAt, InInbox
    <2>1. CASE q # r
      <3>1. pc'[q] = pc[q] /\ op'[q] = op[q] /\ replies'[q] = replies[q]
        BY <1>1, <2>1, RequesterEffect
      <3> QED BY <2>0, <3>1 DEF NoneForgotten, IsAttached, Answered, AskedAt, InInbox
    <2>2. CASE q = r /\ Send(r)
      <3>1. Alive(op[r]) /\ op' = op
        BY <2>2, <2>0 DEF Send, Lost, Finish, TypeOK
      <3>2. Post(op[r], Msg("job", r)) BY <2>2, <3>1 DEF Send
      <3>3. Msg("job", r) \in Message /\ Msg("job", r).type = "job" /\ Msg("job", r).req = r
        BY MsgType
      <3>4. Msg("job", r) \in Range(inbox'[op[r]])
        BY <2>0, <2>2, <3>1, <3>2, <3>3, PostType
      <3> QED BY <2>2, <3>1, <3>3, <3>4 DEF AskedAt, InInbox
    <2>3. CASE q = r /\ ~Send(r)
      <3>1. TakeCancel(r) \/ Poll(r) \/ Look(r) \/ EndGrants(r) \/ Leave(r)
        BY <1>1, <2>3 DEF Ask, RequesterStep, Claim, Seek, SeekGone, Number, Register,
           TakeAnswer, Finish, At, Sending, TypeOK
      <3>2. op' = op BY <3>1 DEF TakeCancel, Poll, Look, EndGrants, Leave
      <3>3. pc[r] \in {"await", "polled"}
        BY <2>3, <3>1 DEF TakeCancel, Poll, Look, EndGrants, Leave, At
      <3>4. AskedAt(op[r], r) \/ Answered(r)
        BY <2>0, <2>3, <3>2, <3>3 DEF NoneForgotten, IsAttached, Answered
      <3>5. CASE TakeCancel(r)
        <4>1. replies[r] \in Seq({"approved", "denied", "cancel"}) /\ replies[r] # <<>>
          BY <3>5 DEF TypeOK, TakeCancel
        <4>2. Range(replies[r]) = {"cancel"} \cup Range(replies'[r])
          <5>1. replies'[r] = Tail(replies[r]) /\ Head(replies[r]) = "cancel"
            BY <3>5 DEF TypeOK, TakeCancel
          <5> QED BY <4>1, <5>1, RangeTail
        <4>3. Answered(r) => Answered(r)' BY <4>2 DEF Answers, Answered
        <4> QED BY <2>0, <2>3, <3>2, <3>4, <4>3 DEF AskedAt, InInbox
      <3>6. CASE ~TakeCancel(r)
        <4>1. replies' = replies BY <3>1, <3>6 DEF Poll, Look, EndGrants, Leave
        <4>2. Answered(r) => Answered(r)' BY <4>1 DEF Answered
        <4> QED BY <2>0, <2>3, <3>2, <3>4, <4>2 DEF AskedAt, InInbox
      <3> QED BY <3>5, <3>6
    <2> QED BY <2>1, <2>2, <2>3
  <1>2. ASSUME NEW s \in Sessions, Attach(s) \/ SessionStep(s) PROVE NoneForgotten'
    <2> SUFFICES ASSUME NEW q \in Requests, pc'[q] \in {"await", "polled"},
                        op'[q] \in attached'
                 PROVE  AskedAt(op[q], q)' \/ Answered(q)'
      BY DEF NoneForgotten, IsAttached, Answered
    <2> DEFINE h == Head(inbox[s])
    <2>1. UNCHANGED <<pc, op>> BY <1>2, SessionEffect
    <2>2. op[q] \in attached
      <3>1. CASE Attach(s)
        <4>1. sess[s] = "off" /\ attached' = attached \cup {s} BY <3>1 DEF Attach
        <4>2. sess[op[q]] # "off" BY <2>1 DEF Addressed
        <4> QED BY <2>1, <4>1, <4>2
      <3>2. CASE ~Attach(s)
        BY <1>2, <2>1, <3>2 DEF SessionStep, ServeJob, ServeWithdraw, ServeAnswer,
           ServeCancel, ServeGrantEnded, Close, Unlist, Drop
      <3> QED BY <3>1, <3>2
    <2>3. op[q] \in Sessions /\ (AskedAt(op[q], q) \/ Answered(q))
      BY <2>1, <2>2 DEF NoneForgotten, IsAttached, TypeOK, Answered
    <2>4. Answered(q) => Answered(q)'
      <3>1. CASE replies'[q] = replies[q] BY <3>1 DEF Answered
      <3>2. CASE replies'[q] # replies[q]
        <4>1. (ServeAnswer(s) \/ ServeCancel(s)) /\ q = h.req
          BY <1>2, <3>2 DEF TypeOK, Attach, SessionStep, ServeJob, ServeWithdraw,
             ServeAnswer, ServeCancel, ServeGrantEnded, Close, Unlist, Drop, requestVars
        <4>2. PICK a \in {"approved", "denied", "cancel"} :
                replies'[q] = Append(replies[q], a)
          <5>1. CASE ServeAnswer(s)
            <6>1. h.type \in {"approved", "denied", "cancel"}
              BY <5>1 DEF ServeAnswer, Serve, Answers
            <6>2. replies' = [replies EXCEPT ![q] = Append(@, h.type)]
              BY <3>2, <4>1, <5>1 DEF ServeAnswer
            <6> QED BY <6>1, <6>2 DEF TypeOK
          <5>2. CASE ServeCancel(s)
            BY <3>2, <4>1, <5>2 DEF TypeOK, ServeCancel
          <5> QED BY <4>1, <5>1, <5>2
        <4>3. replies[q] \in Seq({"approved", "denied", "cancel"}) BY DEF TypeOK
        <4>4. Range(replies'[q]) = Range(replies[q]) \cup {a} BY <4>2, <4>3, RangeAppend
        <4> QED BY <4>4 DEF Answered
      <3> QED BY <3>1, <3>2
    <2>5. ASSUME AskedAt(op[q], q), op[q] # s PROVE AskedAt(op[q], q)'
      <3>1. inbox'[op[q]] = inbox[op[q]] /\ waiting'[op[q]] = waiting[op[q]]
        BY <1>2, <2>3, <2>5, SessionEffect
      <3> QED BY <2>1, <2>5, <3>1 DEF AskedAt, InInbox
    <2>6. ASSUME AskedAt(s, q), op[q] = s PROVE AskedAt(s, q)' \/ Answered(q)'
      <3>0. ASSUME NEW types, Serve(s, types)
            PROVE  /\ Range(inbox[s]) = {h} \cup Range(inbox'[s])
                   /\ h \in Message /\ h.type \in types
        BY <3>0, ServeType
      <3>1. CASE ServeJob(s)
        <4>1. Serve(s, {"job"}) /\ waiting' = [waiting EXCEPT ![s] = @ \cup {h.req}]
          BY <3>1 DEF ServeJob
        <4>2. waiting'[s] = waiting[s] \cup {h.req} BY <4>1 DEF TypeOK
        <4> QED BY <2>6, <3>0, <4>1, <4>2 DEF AskedAt, InInbox
      <3>2. CASE ServeWithdraw(s)
        <4>1. Serve(s, {"withdraw"}) /\ waiting'[s] = waiting[s] \ {h.req}
          BY <3>2 DEF ServeWithdraw, TypeOK
        <4>2. h.req # q BY <2>1, <3>0, <4>1 DEF WithdrawnOver, InInbox
        <4> QED BY <2>6, <3>0, <4>1, <4>2 DEF AskedAt, InInbox
      <3>3. CASE ServeAnswer(s)
        <4>1. Serve(s, Answers) BY <3>3 DEF ServeAnswer
        <4>2. CASE h.req = q /\ q \in waiting[s]
          <5>1. replies'[q] = Append(replies[q], h.type) /\ h.type \in Answers
            BY <2>1, <3>0, <3>3, <4>1, <4>2 DEF ServeAnswer, TypeOK
          <5>2. replies[q] \in Seq({"approved", "denied", "cancel"})
                /\ h.type \in {"approved", "denied", "cancel"}
            BY <5>1 DEF TypeOK, Answers
          <5>3. h.type \in Range(replies'[q]) BY <5>1, <5>2, RangeAppend
          <5> QED BY <5>1, <5>3 DEF Answered
        <4>3. CASE ~(h.req = q /\ q \in waiting[s])
          <5>1. q \in waiting[s] => q \in waiting'[s]
            BY <3>3, <4>3 DEF ServeAnswer, TypeOK
          <5>2. h.type # "job" BY <3>0, <4>1 DEF Answers
          <5> QED BY <2>6, <3>0, <4>1, <5>1, <5>2 DEF AskedAt, InInbox
        <4> QED BY <4>2, <4>3
      <3>4. CASE ServeCancel(s) \/ ServeGrantEnded(s)
        <4>1. waiting' = waiting /\ (Serve(s, {"cancel"}) \/ Serve(s, {"grantEnded"}))
          BY <3>4 DEF ServeCancel, ServeGrantEnded
        <4> QED BY <2>6, <3>0, <4>1 DEF AskedAt, InInbox
      <3>5. CASE Close(s)
        <4>1. waiting' = waiting /\ (Serve(s, {"closed"}) \/ inbox' = inbox)
          BY <3>5 DEF Close
        <4> QED BY <2>6, <3>0, <4>1 DEF AskedAt, InInbox
      <3>6. CASE Attach(s) \/ Unlist(s)
        BY <2>6, <3>6 DEF Attach, Unlist, AskedAt, InInbox
      <3>7. ~Drop(s) BY <2>2, <2>3, <2>6 DEF Drop, Lifecycle
      <3> QED BY <1>2, <3>1, <3>2, <3>3, <3>4, <3>5, <3>6, <3>7 DEF SessionStep
    <2> QED BY <2>1, <2>3, <2>4, <2>5, <2>6
  <1>3. ASSUME NEW s \in Sessions, TuiStep(s) PROVE NoneForgotten'
    <2>1. UNCHANGED <<pc, op, attached, waiting, replies>> BY <1>3, TuiEffect DEF requestVars
    <2>2. \A z \in Sessions : Range(inbox[z]) \subseteq Range(inbox'[z])
      BY <1>3, TuiSent DEF Sent
    <2>3. attached \subseteq Sessions BY DEF TypeOK
    <2> QED BY <2>1, <2>2, <2>3 DEF NoneForgotten, IsAttached, AskedAt, InInbox
  <1>4. ASSUME UNCHANGED vars PROVE NoneForgotten'
    BY <1>4 DEF NoneForgotten, IsAttached, AskedAt, InInbox, vars, requestVars, sessionVars
  <1> QED BY <1>1, <1>2, <1>3, <1>4, Actors

-----------------------------------------------------------------------------
(* The theorems.                                                           *)

\* The invariant holds initially.
LEMMA InitInv == Init => TypeOK /\ IndInv
  <1> SUFFICES ASSUME Init PROVE TypeOK /\ IndInv OBVIOUS
  <1>1. TypeOK /\ SlotsMatch BY InitTypes
  <1>2. \A s \in Sessions : Range(inbox[s]) = {} BY DEF Init, Range
  <1>3. Lifecycle /\ Addressed BY DEF Init, Lifecycle, Addressed
  <1>4. WithdrawnOver BY <1>2 DEF WithdrawnOver, InInbox
  <1>5. AskedHere BY DEF Init, AskedHere
  <1>6. NoneForgotten /\ ClosureOwner BY DEF Init, NoneForgotten, ClosureOwner
  <1> QED BY <1>1, <1>3, <1>4, <1>5, <1>6 DEF IndInv

\* The inductive invariant.
LEMMA Invariant == Spec => [](TypeOK /\ IndInv)
  <1>1. TypeOK /\ IndInv /\ [Next]_vars => (TypeOK /\ IndInv)'
    <2> SUFFICES ASSUME TypeOK, IndInv, [Next]_vars PROVE (TypeOK /\ IndInv)' OBVIOUS
    <2>1. /\ Lifecycle /\ Addressed /\ WithdrawnOver /\ AskedHere
          /\ NoneForgotten /\ SlotsMatch /\ ClosureOwner
      BY DEF IndInv
    <2>2. TypeOK' /\ SlotsMatch' BY <2>1, TypeStep
    <2>3. Lifecycle' /\ Addressed' BY <2>1, LifecycleStep, AddressedStep
    <2>4. WithdrawnOver' /\ AskedHere' BY <2>1, WithdrawnStep, AskedStep
    <2>5. NoneForgotten' /\ ClosureOwner' BY <2>1, ForgottenStep, ClosureStep
    <2> QED BY <2>2, <2>3, <2>4, <2>5 DEF IndInv
  <1> QED BY <1>1, InitInv, PTL DEF Spec

\* A request on the screen of an attached TUI is on no other's: whichever
\* order attaching, leaving and sending happen in, one operator decides.
THEOREM OneOperatorIsAsked == Spec => []OneAsked
  <1>1. TypeOK /\ IndInv => OneAsked
    <2> SUFFICES ASSUME AskedHere PROVE OneAsked BY DEF IndInv
    <2> QED BY DEF AskedHere, OneAsked
  <1> QED BY <1>1, Invariant, PTL

\* A thread never waits on an attached TUI that has lost its request.
THEOREM NoRequestIsForgotten == Spec => []NoneForgotten
  <1>1. TypeOK /\ IndInv => NoneForgotten BY DEF IndInv
  <1> QED BY <1>1, Invariant, PTL

\* A closure request can be signed only while it is in progress, and only by
\* the process that was asked.
THEOREM ClosureRequestsAreOwned == Spec => []ClosureOwner
  <1>1. TypeOK /\ IndInv => ClosureOwner BY DEF IndInv
  <1> QED BY <1>1, Invariant, PTL
=============================================================================
