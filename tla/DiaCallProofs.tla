---------------------------- MODULE DiaCallProofs ----------------------------
(***************************************************************************)
(* Proofs about DiaCall: the gate, and the exchange that nothing disturbs.   *)
(* A call is up only if DIA completed with a verified caller, and, unless   *)
(* the relay kept requests of an earlier call, over this call's request on  *)
(* the topic both parties are on.                                           *)
(*                                                                          *)
(* TypeOK is not inductive: that a message carries a call number, and a     *)
(* request a topic, rests on when a relay session exists (Linked).  The gate*)
(* rests on where a RUA request can be (Clean): in the log of the topic the *)
(* caller has moved to, on its way there, or with a callee that listens     *)
(* there.  Being is the three and the gate itself.                          *)
(*                                                                          *)
(* That an undisturbed exchange ends in a call that is up (NeverStuck) has   *)
(* an invariant of its own, OnCourse, further down: the stages it goes       *)
(* through.                                                                 *)
(***************************************************************************)
EXTENDS DiaCall, FiniteSetTheorems, SequenceTheorems, TLAPS

\* A party has a relay session, once it has one, on a topic, in a call; its goroutine
\* starts with neither; an INVITE has not touched the callee.
Linked ==
    /\ \A p \in Parties :
          /\ link[p] = "off" => out[p] = <<>> /\ inb[p] = <<>> /\ at[p] = None
          /\ link[p] # "off" => call # 0 /\ sess[p].topic # None
          /\ sess[p].pc = "starting" =>
                call # 0 /\ link[p] = "off" /\ sess[p].mode = "ake" /\ ~sess[p].complete
    /\ sip = "invited" =>
          call # 0 /\ link["callee"] = "off" /\ sess["callee"].pc # "starting"

\* A caller with the session s is on topic t, for the RUA.
OnRUA(s, t) == s.mode # "ake" /\ s.topic = t

\* Messages of call n; a RUA request only where "there" holds.
Mine(n, there) == {m \in Messages : m.call = n /\ (m.kind = "RUARequest" => there)}

CallerRequests(n, s) == {r \in Requests : r.payload \in Seq(Mine(n, OnRUA(s, r.topic)))}
CalleeRequests(n, s) ==
    {r \in Requests : /\ r.payload \in Seq(Mine(n, FALSE))
                      /\ r.op = "subscribe" => r.topic \in {AKETopic, s.topic}}

\* Where this call's messages are, if the relay kept none of an earlier call.
CleanLog   == \A t \in Topics : log[t] \in Seq(Mine(call, OnRUA(sess["caller"], t)))
CleanOut   == /\ out["caller"] \in Seq(CallerRequests(call, sess["caller"]))
              /\ out["callee"] \in Seq(CalleeRequests(call, sess["callee"]))
CleanInb   == /\ inb["caller"] \in Seq(Mine(call, TRUE))
              /\ inb["callee"] \in Seq(Mine(call, OnRUA(sess["caller"], sess["callee"].topic)))
CleanPlace == at["callee"] \in {None, AKETopic, sess["callee"].topic}
Clean == "kept" \notin disturbed => CleanLog /\ CleanOut /\ CleanInb /\ CleanPlace

\* The topics: the caller leaves the AKE topic with the AKE, the callee not before.
Placed == /\ sess["caller"].mode # "ake" => sess["caller"].topic \notin {None, AKETopic}
          /\ sess["callee"].mode = "ake" => sess["callee"].topic \in {None, AKETopic}

\* What DIAComplete stands for at the callee, and what the gate and the call rest on.
Completed ==
    LET s == sess["callee"] IN
    /\ s.pc = "gate" => s.complete
    /\ s.complete => /\ s.mode = "over"
                     /\ "kept" \notin disturbed => s.asked = call /\ OnRUA(sess["caller"], s.topic)
    /\ sip = "up" => s.complete /\ Verified("callee")

Being == TypeOK /\ Linked /\ Placed /\ Clean /\ Completed
-----------------------------------------------------------------------------
(* The operators of the model. *)

USE BoundAssumption, PartyAssumption

\* Other is the other one of the two parties.
LEMMA OtherParty == /\ Other("caller") = "callee" /\ Other("callee") = "caller"
                    /\ \A p \in Parties : p = "caller" \/ p = "callee"
BY DEF Other, Parties

\* A set of natural numbers that is not empty has a least one.
LEMMA Least ==
    ASSUME NEW S \in SUBSET Nat, S # {}
    PROVE  \E n \in S : \A m \in S : n <= m
<1>1. PICK n \in S : \A m \in S : ~(<<m, n>> \in OpToRel(<, Nat))
      BY NatLessThanWellFounded, WFMin
<1>2. \A m \in S : ~(m < n)
      BY <1>1 DEF OpToRel
<1> QED
    BY <1>2

\* Nth, the order in which Replay takes the messages: a finite set of indexes with n
\* or more elements has an n-th.
LEMMA NthIsIn ==
    ASSUME NEW N \in Nat, NEW I \in SUBSET (1 .. N), NEW n \in 1 .. Cardinality(I)
    PROVE  Nth(I, n) \in I
<1> DEFINE UpTo(i) == {j \in I : j <= i}
<1>0. \A i \in I : i \in Nat /\ 0 < i /\ i <= N
      OBVIOUS
<1>1. IsFiniteSet(I) /\ Cardinality(I) \in Nat
  <2>1. 1 \in Int /\ N \in Int
        OBVIOUS
  <2>2. IsFiniteSet(1 .. N)
        BY <2>1, FS_Interval
  <2> QED
      BY <2>2, FS_Subset, FS_CardinalityType
<1>2. \A i : IsFiniteSet(UpTo(i)) /\ Cardinality(UpTo(i)) \in Nat
  <2>1. \A i : UpTo(i) \in SUBSET I
        OBVIOUS
  <2> HIDE DEF UpTo
  <2> QED
        BY <1>1, <2>1, FS_Subset, FS_CardinalityType
<1>3. UpTo(N) = I
      BY <1>0, Zenon
<1>4. UpTo(0) = {}
  <2>1. \A j \in I : ~(j <= 0)
        BY <1>0
  <2> QED
      BY <2>1, Zenon
<1>5. \A i \in Nat \ {0} : UpTo(i) = IF i \in I THEN UpTo(i - 1) \cup {i} ELSE UpTo(i - 1)
  <2> TAKE i \in Nat \ {0}
  <2>1. \A j \in I : j <= i <=> j <= i - 1 \/ j = i
        BY <1>0
  <2>2. UpTo(i) \subseteq I /\ UpTo(i - 1) \subseteq I
        OBVIOUS
  <2>3. \A j \in I : (j \in UpTo(i) <=> j <= i) /\ (j \in UpTo(i - 1) <=> j <= i - 1)
        OBVIOUS
  <2> HIDE DEF UpTo
  <2> QED
      BY <2>1, <2>2, <2>3
<1>6. \A i \in Nat : i \notin UpTo(i - 1)
      OBVIOUS
<1> DEFINE Enough == {i \in Nat : Cardinality(UpTo(i)) >= n}
<1>7. PICK i \in Enough : \A k \in Enough : i <= k
  <2>1. N \in Enough
        BY <1>3
  <2>2. Enough \in SUBSET Nat
        OBVIOUS
  <2> QED
        BY <2>1, <2>2, Least
<1> HIDE DEF UpTo
<1>8. i # 0
      BY <1>4, <1>7, FS_EmptySet
<1>9. Cardinality(UpTo(i - 1)) < n
  <2>1. i - 1 \in Nat /\ i - 1 \notin Enough
        BY <1>7, <1>8
  <2> QED
        BY <1>2, <2>1
<1>10. i \in I /\ Cardinality(UpTo(i)) = Cardinality(UpTo(i - 1)) + 1
  <2>1. Cardinality(UpTo(i - 1) \cup {i}) = Cardinality(UpTo(i - 1)) + 1
        BY <1>2, <1>6, <1>7, FS_AddElement
  <2>2. Cardinality(UpTo(i)) >= n
        BY <1>7
  <2> QED
        BY <1>5, <1>7, <1>8, <1>9, <2>1, <2>2
<1>11. Cardinality(UpTo(i)) = n
       BY <1>2, <1>7, <1>9, <1>10
<1> QED
    BY <1>10, <1>11 DEF Nth, UpTo

\* What a subscriber is shown of a topic is some of what the topic keeps.
LEMMA ReplayKept ==
    ASSUME NEW S, NEW p, NEW t, log[t] \in Seq(S)
    PROVE  Replay(p, t) \in Seq(S)
<1> DEFINE I == Shown(p, t)
<1>1. Len(log[t]) \in Nat /\ DOMAIN log[t] = 1 .. Len(log[t])
      BY LenProperties
<1>2. I \in SUBSET (1 .. Len(log[t]))
      BY <1>1 DEF Shown
<1>3. \A n \in 1 .. Cardinality(I) : log[t][Nth(I, n)] \in S
  <2> TAKE n \in 1 .. Cardinality(I)
  <2>1. Nth(I, n) \in 1 .. Len(log[t])
        BY <1>1, <1>2, NthIsIn
  <2> QED
        BY <2>1, ElementOfSeq
<1>4. Cardinality(I) \in Nat
  <2>1. 1 \in Int /\ Len(log[t]) \in Int
        BY <1>1
  <2>2. IsFiniteSet(1 .. Len(log[t]))
        BY <2>1, FS_Interval
  <2> QED
      BY <1>2, <2>2, FS_Subset, FS_CardinalityType
<1>5. Replay(p, t) = [n \in 1 .. Cardinality(I) |-> log[t][Nth(I, n)]]
      BY DEF Replay
<1> HIDE DEF I
<1>6. [n \in 1 .. Cardinality(I) |-> log[t][Nth(I, n)]] \in [1 .. Cardinality(I) -> S]
      BY <1>3
<1> QED
    BY <1>4, <1>5, <1>6, SeqDef

\* Sequences over a set.
LEMMA Joined ==
    ASSUME NEW S, NEW q \in Seq(S), NEW r \in Seq(S)
    PROVE  q \o r \in Seq(S)
BY ConcatProperties

LEMMA Shorter ==
    ASSUME NEW S, NEW q \in Seq(S), q # <<>>
    PROVE  Head(q) \in S /\ Tail(q) \in Seq(S)
BY HeadTailProperties
-----------------------------------------------------------------------------
(* Type correctness. *)

USE DEF phone, feed, net, ghost, vars, Set, Rest, Consumed, Then

\* The shapes the actions build.
LEMMA Shapes ==
    /\ "caller" \in Parties /\ "callee" \in Parties
    /\ None \notin Topics /\ AKETopic \in Topics
    /\ \A n \in 1 .. MaxCalls : FreshRUA(n) \in Topics /\ FreshRUA(n) # AKETopic
    /\ \A k \in Keys : CachedRUA(k) \in Topics /\ CachedRUA(k) # AKETopic
    /\ call \in 1 .. MaxCalls => \A k \in Kinds : \A p \in Parties : Msg(k, p) \in Messages
    /\ \A t \in Topics : \A m \in Messages : Publish(t, m) \in Requests
    /\ \A t \in Topics : \A q \in Seq(Messages) : Subscribe(t, q) \in Requests
    /\ NoSession \in SessionType
BY DEF None, AKETopic, FreshRUA, CachedRUA, Topics, Msg, Messages, Publish, Subscribe, Requests,
       NoSession, SessionType, Keys, Parties

\* TypeOK, the sessions and the relay apart.
ControlType ==
    /\ call \in 0 .. MaxCalls
    /\ sip \in {"none", "invited", "ringing", "up", "over"}
    /\ events \in [Parties -> Seq({"established", "closed"})]
    /\ cache \in [Parties -> 0 .. OldKeys + MaxCalls]
    /\ faults \in 0 .. MaxFaults /\ strangers \subseteq Unverified
    /\ disturbed \subseteq {"caches", "kept", "fault", "timeout"}
    /\ verdicts \in Seq({"accept", "reject"})
SessType == sess \in [Parties -> SessionType]

LEMMA TypeParts == TypeOK <=> ControlType /\ SessType /\ RelayType
BY DEF TypeOK, ControlType, SessType

\* The end of a call, and what a rejected one leaves at the callee.
LEMMA OverType ==
    ASSUME ControlType, Over
    PROVE  sip' = "over" /\ events' \in [Parties -> Seq({"established", "closed"})]
<1>1. \A p \in Parties : Append(events[p], "closed") \in Seq({"established", "closed"})
      BY DEF ControlType
<1> QED
    BY <1>1 DEF Over, ControlType

LEMMA RejectType ==
    ASSUME ControlType, RejectCall
    PROVE  /\ sip' = "over" /\ events' \in [Parties -> Seq({"established", "closed"})]
           /\ verdicts' \in Seq({"accept", "reject"})
BY OverType DEF RejectCall, ControlType

LEMMA FaultType ==
    ASSUME ControlType, Fault
    PROVE  /\ faults' \in 0 .. MaxFaults /\ strangers' = strangers
           /\ disturbed' = disturbed \cup {"fault"}
           /\ disturbed' \subseteq {"caches", "kept", "fault", "timeout"}
BY DEF Fault, ControlType

LEMMA TypeInit == Init => TypeOK
BY Shapes DEF Init, TypeOK, RelayType, Parties

-----------------------------------------------------------------------------
(* What the actions do to the sessions. *)

\* An edit of a session that leaves DIA where it is and starts no goroutine.
Edit(s, r) ==
    /\ r \in SessionType
    /\ r.mode = s.mode /\ r.topic = s.topic /\ r.asked = s.asked /\ r.complete = s.complete
    /\ r.pc \in {s.pc, "idle", "reject"}

LEMMA Edits ==
    ASSUME NEW s \in SessionType
    PROVE  /\ Edit(s, s)
           /\ Edit(s, [s EXCEPT !.pc = "idle"])
           /\ Edit(s, [s EXCEPT !.pc = "idle", !.timer = FALSE])
           /\ Edit(s, [s EXCEPT !.pc = "reject", !.timer = FALSE])
           /\ Edit(s, [s EXCEPT !.state = "other"])
           /\ Edit(s, [s EXCEPT !.state = "closed", !.reg = "ending"])
           /\ Edit(s, [s EXCEPT !.reg = "no", !.timer = FALSE])
           /\ Edit(s, [s EXCEPT !.pc = "idle", !.state = "closed", !.reg = "no",
                                !.timer = FALSE])
           /\ Edit(s, [s EXCEPT !.timer = FALSE, !.state = "closed", !.reg = "no"])
BY DEF Edit, SessionType

\* The step edits sessions, if it changes them at all.
Still == \A p \in Parties : Edit(sess[p], sess'[p])
StillStep == SessType' /\ Still

LEMMA StillNothing == ASSUME SessType, UNCHANGED sess PROVE StillStep
BY Edits DEF SessType, StillStep, Still

LEMMA StillOne ==
    ASSUME SessType, NEW p \in Parties, NEW r, Edit(sess[p], r), sess' = [sess EXCEPT ![p] = r]
    PROVE  StillStep
<1>1. \A q \in Parties : sess'[q] = IF q = p THEN r ELSE sess[q]
      BY DEF SessType
<1>2. \A q \in Parties : Edit(sess[q], sess'[q])
      BY <1>1, Edits DEF SessType
<1>3. r \in SessionType
      BY DEF Edit
<1> QED
    BY <1>2, <1>3 DEF SessType, StillStep, Still

LEMMA StillEndReject == ASSUME SessType, EndReject PROVE StillStep
<1>1. sess["callee"] \in SessionType
      BY Shapes DEF SessType
<1> QED
    BY <1>1, Shapes, Edits, StillOne DEF EndReject

LEMMA StillGate == ASSUME SessType, Gate PROVE StillStep
<1>1. sess["callee"] \in SessionType
      BY Shapes DEF SessType
<1> QED
    BY <1>1, Shapes, Edits, StillOne DEF Gate, RejectOnError

LEMMA StillTimer == ASSUME SessType, TimerRejects PROVE StillStep
<1> DEFINE r == [sess["callee"] EXCEPT !.timer = FALSE, !.state = "closed", !.reg = "no"]
<1>1. sess["callee"] \in SessionType /\ "callee" \in Parties
      BY Shapes DEF SessType
<1>2. Edit(sess["callee"], r)
      BY <1>1, Edits
<1>3. sess' = [sess EXCEPT !["callee"] = r]
      BY DEF TimerRejects
<1> HIDE DEF r
<1> QED
    BY <1>1, <1>2, <1>3, StillOne

LEMMA StillFails == ASSUME SessType, NEW p \in Parties, HandlerFails(p) PROVE StillStep
<1>1. sess["callee"] \in SessionType /\ sess[p] \in SessionType
      BY Shapes DEF SessType
<1> QED
    BY <1>1, Shapes, Edits, StillOne, StillNothing DEF HandlerFails, RejectOnError

LEMMA StillEstablished == ASSUME SessType, NEW p \in Parties, HandleEstablished(p) PROVE StillStep
<1> DEFINE r == [sess[p] EXCEPT !.state = "other"]
<1>1. sess[p] \in SessionType
      BY DEF SessType
<1>2. Edit(sess[p], r)
      BY <1>1, Edits
<1>3. sess' = [sess EXCEPT ![p] = r] \/ UNCHANGED sess
      BY DEF HandleEstablished
<1> HIDE DEF r
<1> QED
    BY <1>2, <1>3, StillOne, StillNothing

LEMMA StillClosed == ASSUME SessType, NEW p \in Parties, HandleClosed(p) PROVE StillStep
<1> DEFINE r == [sess[p] EXCEPT !.state = "closed", !.reg = "ending"]
<1>1. sess[p] \in SessionType
      BY DEF SessType
<1>2. Edit(sess[p], r)
      BY <1>1, Edits
<1>3. sess' = [sess EXCEPT ![p] = r] \/ UNCHANGED sess
      BY DEF HandleClosed
<1> HIDE DEF r
<1> QED
    BY <1>2, <1>3, StillOne, StillNothing

LEMMA StillEndClosed == ASSUME SessType, NEW p \in Parties, EndClosed(p) PROVE StillStep
<1> DEFINE r == [sess[p] EXCEPT !.reg = "no", !.timer = FALSE]
<1>1. sess[p] \in SessionType
      BY DEF SessType
<1>2. Edit(sess[p], r)
      BY <1>1, Edits
<1>3. sess' = [sess EXCEPT ![p] = r]
      BY DEF EndClosed
<1> HIDE DEF r
<1> QED
    BY <1>2, <1>3, StillOne

\* The relay session of a party is made and started.
LEMMA OpenedSess ==
    ASSUME SessType, NEW p \in Parties, NEW t \in Topics, NEW mode \in {"ake", "rua"}, NEW requests,
           Opened(p, t, mode, requests)
    PROVE  /\ SessType'
           /\ sess'[p].mode = mode /\ sess'[p].topic = t /\ sess'[p].pc = "idle"
           /\ sess'[p].asked = sess[p].asked /\ sess'[p].complete = sess[p].complete
           /\ \A q \in Parties \ {p} : sess'[q] = sess[q]
<1> DEFINE r == [sess[p] EXCEPT !.pc = "idle", !.state = "other", !.topic = t, !.mode = mode]
<1>1. sess[p] \in SessionType
      BY DEF SessType
<1>2. /\ r \in SessionType
      /\ r.mode = mode /\ r.topic = t /\ r.pc = "idle"
      /\ r.asked = sess[p].asked /\ r.complete = sess[p].complete
      BY <1>1 DEF SessionType
<1>3. sess' = [sess EXCEPT ![p] = r]
      BY DEF Opened
<1> HIDE DEF r
<1> QED
    BY <1>2, <1>3 DEF SessType

-----------------------------------------------------------------------------
(* Steps that leave DIA where it is at both parties. *)

LEMMA BeingParts ==
    Being <=> ControlType /\ SessType /\ RelayType /\ Linked /\ Placed /\ Clean /\ Completed
BY TypeParts DEF Being

\* What such a step does outside the relay.
Calm ==
    /\ ControlType' /\ StillStep
    /\ call' = call /\ strangers' = strangers /\ disturbed \subseteq disturbed'
    /\ sip' = "invited" => sip = "invited"
    /\ sip' = "up" => sip = "up" \/ (sess["callee"].pc = "gate" /\ Verified("callee"))

\* A relay session that is closed has nothing left; one is only made by DIA.
LinksStay ==
    \A p \in Parties : /\ link'[p] = "off" => out'[p] = <<>> /\ inb'[p] = <<>> /\ at'[p] = None
                       /\ link'[p] # "off" => link[p] # "off"

\* DIA being where it was, so is what Clean allows.
LEMMA StillSets ==
    ASSUME Still, call' = call
    PROVE  /\ \A t : OnRUA(sess'["caller"], t) <=> OnRUA(sess["caller"], t)
           /\ CallerRequests(call', sess'["caller"]) = CallerRequests(call, sess["caller"])
           /\ CalleeRequests(call', sess'["callee"]) = CalleeRequests(call, sess["callee"])
           /\ sess'["callee"].topic = sess["callee"].topic
<1>1. \A p \in Parties : sess'[p].mode = sess[p].mode /\ sess'[p].topic = sess[p].topic
      BY DEF Still, Edit
<1>2. \A t : OnRUA(sess'["caller"], t) <=> OnRUA(sess["caller"], t)
      BY <1>1, Shapes DEF OnRUA
<1>3. \A r : r.payload \in Seq(Mine(call', OnRUA(sess'["caller"], r.topic)))
               <=> r.payload \in Seq(Mine(call, OnRUA(sess["caller"], r.topic)))
  <2> TAKE r
  <2>1. Mine(call', OnRUA(sess'["caller"], r.topic)) = Mine(call, OnRUA(sess["caller"], r.topic))
        BY <1>2 DEF Mine
  <2> QED
      BY <2>1
<1>4. CallerRequests(call', sess'["caller"]) = CallerRequests(call, sess["caller"])
      BY <1>3 DEF CallerRequests
<1>5. sess'["callee"].topic = sess["callee"].topic
      BY <1>1, Shapes
<1>6. CalleeRequests(call', sess'["callee"]) = CalleeRequests(call, sess["callee"])
      BY <1>5, Zenon DEF CalleeRequests
<1> QED
    BY <1>2, <1>4, <1>5, <1>6

LEMMA CalmStep ==
    ASSUME Being, Calm, RelayType', LinksStay, Clean'
    PROVE  Being'
<1>0. ControlType /\ SessType /\ RelayType /\ Linked /\ Placed /\ Clean /\ Completed
      BY BeingParts
<1>1. \A p \in Parties : /\ sess'[p].mode = sess[p].mode /\ sess'[p].topic = sess[p].topic
                         /\ sess'[p].asked = sess[p].asked
                         /\ sess'[p].complete = sess[p].complete
                         /\ sess'[p].pc \in {sess[p].pc, "idle", "reject"}
      BY DEF Calm, StillStep, Still, Edit
<1>2. Linked'
      BY <1>0, <1>1, Shapes DEF Linked, LinksStay, Calm
<1>3. Placed'
      BY <1>0, <1>1, Shapes DEF Placed
<1>4. Completed'
  <2>1. sess'["callee"].pc = "gate" => sess'["callee"].complete
        BY <1>0, <1>1, Shapes DEF Completed
  <2>2. sess'["callee"].complete => sess'["callee"].mode = "over"
        BY <1>0, <1>1, Shapes DEF Completed
  <2>3. ASSUME sess'["callee"].complete, "kept" \notin disturbed'
        PROVE  sess'["callee"].asked = call' /\ OnRUA(sess'["caller"], sess'["callee"].topic)
    <3>1. sess["callee"].complete /\ "kept" \notin disturbed
          BY <1>1, <2>3, Shapes DEF Calm
    <3>2. sess["callee"].asked = call /\ OnRUA(sess["caller"], sess["callee"].topic)
          BY <1>0, <3>1 DEF Completed
    <3> QED
        BY <1>1, <3>2, Shapes, StillSets DEF Calm, StillStep
  <2>4. sip' = "up" => sess'["callee"].complete /\ Verified("callee")'
        BY <1>0, <1>1, Shapes DEF Completed, Calm, Verified
  <2> QED
      BY <2>1, <2>2, <2>3, <2>4 DEF Completed
<1> QED
    BY <1>2, <1>3, <1>4 DEF Being, TypeOK, ControlType, SessType, Calm, StillStep

\* Nothing is added to what is on its way: a queue keeps what it had, its tail or nothing.
Shrunk(q, r) == r = q \/ r = <<>> \/ (q # <<>> /\ r = Tail(q))
Shrinks ==
    /\ log' = log /\ made' = made
    /\ link' \in [Parties -> {"off", "down", "up"}]
    /\ out' = [p \in Parties |-> out'[p]] /\ \A p \in Parties : Shrunk(out[p], out'[p])
    /\ inb' = [p \in Parties |-> inb'[p]] /\ \A p \in Parties : Shrunk(inb[p], inb'[p])
    /\ at' = [p \in Parties |-> at'[p]] /\ \A p \in Parties : at'[p] \in {at[p], None}

LEMMA ShrunkIn == ASSUME NEW S, NEW q \in Seq(S), NEW r, Shrunk(q, r) PROVE r \in Seq(S)
BY Shorter, EmptySeq DEF Shrunk

LEMMA ShrinksType == ASSUME RelayType, Shrinks PROVE RelayType'
<1>1. \A p \in Parties : out'[p] \in Seq(Requests)
      BY ShrunkIn DEF RelayType, Shrinks
<1>2. \A p \in Parties : inb'[p] \in Seq(Messages)
      BY ShrunkIn DEF RelayType, Shrinks
<1>3. \A p \in Parties : at'[p] \in Topics \cup {None}
      BY DEF RelayType, Shrinks
<1>4. out' \in [Parties -> Seq(Requests)]
      BY <1>1 DEF Shrinks
<1>5. inb' \in [Parties -> Seq(Messages)]
      BY <1>2 DEF Shrinks
<1>6. at' \in [Parties -> Topics \cup {None}]
      BY <1>3 DEF Shrinks
<1> QED
    BY <1>4, <1>5, <1>6 DEF RelayType, Shrinks

LEMMA ShrinksClean ==
    ASSUME Clean, Still, call' = call, disturbed \subseteq disturbed', Shrinks
    PROVE  Clean'
<1> SUFFICES ASSUME "kept" \notin disturbed'
             PROVE  CleanLog' /\ CleanOut' /\ CleanInb' /\ CleanPlace'
    BY DEF Clean
<1>0. CleanLog /\ CleanOut /\ CleanInb /\ CleanPlace
      BY DEF Clean
<1>1. CleanLog'
  <2> SUFFICES ASSUME NEW t \in Topics
               PROVE  log'[t] \in Seq(Mine(call', OnRUA(sess'["caller"], t)))
      BY DEF CleanLog
  <2>1. log[t] \in Seq(Mine(call, OnRUA(sess["caller"], t)))
        BY <1>0 DEF CleanLog
  <2>2. OnRUA(sess'["caller"], t) = OnRUA(sess["caller"], t)
        BY StillSets DEF OnRUA
  <2> QED
      BY <2>1, <2>2 DEF Shrinks
<1>2. CleanOut'
      BY <1>0, Shapes, ShrunkIn, StillSets DEF CleanOut, Shrinks
<1>3. CleanInb'
  <2>1. OnRUA(sess'["caller"], sess'["callee"].topic) = OnRUA(sess["caller"], sess["callee"].topic)
        BY StillSets DEF OnRUA
  <2>2. inb'["caller"] \in Seq(Mine(call', TRUE))
        BY <1>0, Shapes, ShrunkIn DEF CleanInb, Shrinks
  <2>3. inb'["callee"] \in Seq(Mine(call, OnRUA(sess["caller"], sess["callee"].topic)))
        BY <1>0, Shapes, ShrunkIn DEF CleanInb, Shrinks
  <2> QED
      BY <2>1, <2>2, <2>3 DEF CleanInb
<1>4. CleanPlace'
      BY <1>0, Shapes, StillSets DEF CleanPlace, Shrinks
<1> QED
    BY <1>1, <1>2, <1>3, <1>4

LEMMA ShrinkStep == ASSUME Being, Calm, LinksStay, Shrinks PROVE Being'
<1>1. RelayType'
      BY BeingParts, ShrinksType
<1>2. Clean'
      BY BeingParts, ShrinksClean DEF Calm, StillStep
<1> QED
    BY <1>1, <1>2, CalmStep
-----------------------------------------------------------------------------
(* The steps that only take from the relay sessions, or leave them alone. *)

LEMMA NetAlone == ASSUME RelayType, Linked, UNCHANGED net PROVE LinksStay /\ Shrinks
<1>1. LinksStay
      BY DEF Linked, LinksStay, net
<1>2. Shrinks
      BY DEF Shrinks, Shrunk, RelayType, net
<1> QED
    BY <1>1, <1>2

LEMMA CleanedUpShrinks ==
    ASSUME RelayType, Linked, NEW p \in Parties, CleanedUp(p) PROVE LinksStay /\ Shrinks
<1>1. LinksStay
      BY DEF Linked, LinksStay, CleanedUp, RelayType
<1>2. Shrinks
      BY DEF Shrinks, Shrunk, RelayType, CleanedUp
<1> QED
    BY <1>1, <1>2

\* An event of inb[p] is consumed or lost.
LEMMA TakenShrinks ==
    ASSUME RelayType, Linked, NEW p \in Parties, inb[p] # <<>>,
           inb' = [inb EXCEPT ![p] = Tail(@)], UNCHANGED <<link, out, at, log, made>>
    PROVE  LinksStay /\ Shrinks
<1>1. LinksStay
      BY DEF Linked, LinksStay, RelayType
<1>2. Shrinks
      BY DEF Shrinks, Shrunk, RelayType
<1> QED
    BY <1>1, <1>2

\* The sessions are not touched.
LEMMA CalmNothing ==
    ASSUME SessType, ControlType', UNCHANGED <<call, sip, sess>>, strangers' = strangers,
           disturbed \subseteq disturbed'
    PROVE  Calm
BY StillNothing DEF Calm

LEMMA StepHangsUp == ASSUME Being, UserHangsUp PROVE Being'
<1>0. ControlType /\ SessType /\ RelayType /\ Linked
      BY BeingParts
<1>1. sip' = "over" /\ ControlType'
      BY <1>0, OverType, FaultType DEF UserHangsUp, ControlType
<1>2. Calm
      BY <1>0, <1>1, StillNothing, FaultType DEF UserHangsUp, Calm
<1> QED
    BY <1>0, <1>2, NetAlone, ShrinkStep DEF UserHangsUp

LEMMA StepEstablished == ASSUME Being, NEW p \in Parties, HandleEstablished(p) PROVE Being'
<1>0. ControlType /\ SessType /\ RelayType /\ Linked
      BY BeingParts
<1>1. ControlType'
      BY <1>0, Shorter DEF HandleEstablished, ControlType
<1>2. Calm
      BY <1>0, <1>1, StillEstablished DEF HandleEstablished, Calm
<1> QED
    BY <1>0, <1>2, NetAlone, ShrinkStep DEF HandleEstablished

LEMMA StepEndClosed == ASSUME Being, NEW p \in Parties, EndClosed(p) PROVE Being'
<1>0. ControlType /\ SessType /\ RelayType /\ Linked
      BY BeingParts
<1>1. Calm
      BY <1>0, StillEndClosed DEF EndClosed, Calm, ControlType
<1> QED
    BY <1>0, <1>1, CleanedUpShrinks, ShrinkStep DEF EndClosed

LEMMA StepEndReject == ASSUME Being, EndReject PROVE Being'
<1>0. ControlType /\ SessType /\ RelayType /\ Linked
      BY BeingParts
<1>1. Calm
      BY <1>0, StillEndReject DEF EndReject, Calm, ControlType
<1> QED
    BY <1>0, <1>1, Shapes, CleanedUpShrinks, ShrinkStep DEF EndReject

LEMMA StepTimer == ASSUME Being, TimerRejects PROVE Being'
<1>0. ControlType /\ SessType /\ RelayType /\ Linked
      BY BeingParts
<1>1. /\ sip' = "over" /\ events' \in [Parties -> Seq({"established", "closed"})]
      /\ verdicts' \in Seq({"accept", "reject"})
      BY <1>0, RejectType DEF TimerRejects
<1>2. ControlType'
      BY <1>0, <1>1 DEF TimerRejects, ControlType
<1>3. Calm
      BY <1>0, <1>1, <1>2, StillTimer DEF TimerRejects, Calm
<1> QED
    BY <1>0, <1>3, Shapes, CleanedUpShrinks, ShrinkStep DEF TimerRejects

\* The gate: the one step after which a call can be up.
LEMMA StepGate == ASSUME Being, Gate PROVE Being'
<1>0. ControlType /\ SessType /\ RelayType /\ Linked
      BY BeingParts
<1>1. StillStep
      BY <1>0, StillGate
<1>2. CASE Verified("callee")
  <2>1. ControlType'
    <3>1. verdicts' \in Seq({"accept", "reject"})
      <4>1. verdicts' = Append(verdicts, "accept")
            BY <1>2 DEF Gate, GateOpen, AnswerCall
      <4>2. verdicts \in Seq({"accept", "reject"})
            BY <1>0 DEF ControlType
      <4> QED
          BY <4>1, <4>2
    <3>2. sip' \in {"none", "invited", "ringing", "up", "over"}
          BY <1>0, <1>2 DEF Gate, GateOpen, AnswerCall, Accept, ControlType
    <3>3. events' \in [Parties -> Seq({"established", "closed"})]
      <4>1. \A p \in Parties : Append(events[p], "established") \in Seq({"established", "closed"})
            BY <1>0 DEF ControlType
      <4> QED
          BY <1>0, <1>2, <4>1 DEF Gate, GateOpen, AnswerCall, Accept, ControlType
    <3>4. /\ faults' \in 0 .. MaxFaults /\ strangers' = strangers
          /\ disturbed' \subseteq {"caches", "kept", "fault", "timeout"}
          BY <1>0, <1>2, FaultType DEF Gate, GateOpen, AnswerCall, ControlType
    <3> QED
        BY <1>0, <3>1, <3>2, <3>3, <3>4 DEF Gate, ControlType
  <2>2. strangers' = strangers /\ disturbed \subseteq disturbed'
        BY <1>0, <1>2, FaultType DEF Gate, GateOpen, AnswerCall
  <2>3. sip' = sip \/ sip' = "up"
        BY <1>2 DEF Gate, GateOpen, AnswerCall, Accept
  <2> QED
      BY <1>0, <1>1, <1>2, <2>1, <2>2, <2>3, NetAlone, ShrinkStep DEF Gate, Calm
<1>3. CASE ~Verified("callee")
  <2>1. RejectCall /\ UNCHANGED <<call, cache, net, ghost>>
        BY <1>3 DEF Gate, GateOpen, RejectOnError
  <2>2. /\ sip' = "over" /\ events' \in [Parties -> Seq({"established", "closed"})]
        /\ verdicts' \in Seq({"accept", "reject"})
        BY <1>0, <2>1, RejectType
  <2>3. ControlType'
        BY <1>0, <2>1, <2>2 DEF ControlType
  <2>4. Calm
        BY <1>1, <2>1, <2>2, <2>3 DEF Calm
  <2> QED
      BY <1>0, <2>1, <2>4, NetAlone, ShrinkStep
<1> QED
    BY <1>2, <1>3

LEMMA StepForget == ASSUME Being, NEW p \in Parties, Forget(p) PROVE Being'
<1>0. ControlType /\ SessType /\ RelayType /\ Linked
      BY BeingParts
<1>1. ControlType'
      BY <1>0, FaultType DEF Forget, Remember, ControlType
<1>2. Calm
      BY <1>0, <1>1, CalmNothing, FaultType DEF Forget
<1> QED
    BY <1>0, <1>2, NetAlone, ShrinkStep DEF Forget

LEMMA StepDuplicate == ASSUME Being, DuplicateIgnored PROVE Being'
<1>0. ControlType /\ SessType /\ RelayType /\ Linked
      BY BeingParts
<1>1. ControlType'
      BY <1>0 DEF DuplicateIgnored, ControlType
<1>2. Calm
      BY <1>0, <1>1, CalmNothing DEF DuplicateIgnored
<1>3. LinksStay /\ Shrinks
      BY <1>0, Shapes, TakenShrinks DEF DuplicateIgnored, Message, HasEvent
<1> QED
    BY <1>2, <1>3, ShrinkStep

LEMMA StepDrop == ASSUME Being, NEW p \in Parties, DropEvent(p) PROVE Being'
<1>0. ControlType /\ SessType /\ RelayType /\ Linked
      BY BeingParts
<1>1. ControlType'
      BY <1>0 DEF DropEvent, ControlType
<1>2. Calm
      BY <1>0, <1>1, CalmNothing DEF DropEvent
<1>3. LinksStay /\ Shrinks
      BY <1>0, TakenShrinks DEF DropEvent, HasEvent
<1> QED
    BY <1>2, <1>3, ShrinkStep

LEMMA StepLose == ASSUME Being, NEW p \in Parties, Lose(p) PROVE Being'
<1>0. ControlType /\ SessType /\ RelayType /\ Linked
      BY BeingParts
<1>1. ControlType'
      BY <1>0, FaultType DEF Lose, ControlType
<1>2. Calm
      BY <1>0, <1>1, CalmNothing, FaultType DEF Lose
<1>3. LinksStay /\ Shrinks
      BY <1>0, TakenShrinks DEF Lose
<1> QED
    BY <1>2, <1>3, ShrinkStep

LEMMA StepBreak == ASSUME Being, NEW p \in Parties, Break(p) PROVE Being'
<1>0. ControlType /\ SessType /\ RelayType /\ Linked
      BY BeingParts
<1>1. ControlType'
      BY <1>0, FaultType DEF Break, ControlType
<1>2. Calm
      BY <1>0, <1>1, CalmNothing, FaultType DEF Break
<1>3. LinksStay
  <2> SUFFICES ASSUME NEW q \in Parties
               PROVE  /\ link'[q] = "off" => out'[q] = <<>> /\ inb'[q] = <<>> /\ at'[q] = None
                      /\ link'[q] # "off" => link[q] # "off"
      BY DEF LinksStay
  <2>1. CASE q = p
        BY <1>0, <2>1 DEF Break, RelayType
  <2>2. CASE q # p
        BY <1>0, <2>2 DEF Break, RelayType, Linked
  <2> QED
      BY <2>1, <2>2
<1>4. Shrinks
  <2>1. /\ out' = [q \in Parties |-> out'[q]] /\ \A q \in Parties : Shrunk(out[q], out'[q])
        BY <1>0 DEF Break, RelayType, Shrunk
  <2>2. /\ inb' = [q \in Parties |-> inb'[q]] /\ \A q \in Parties : Shrunk(inb[q], inb'[q])
        BY <1>0 DEF Break, RelayType, Shrunk
  <2>3. /\ at' = [q \in Parties |-> at'[q]] /\ \A q \in Parties : at'[q] \in {at[q], None}
        BY <1>0 DEF Break, RelayType
  <2>4. log' = log /\ made' = made /\ link' \in [Parties -> {"off", "down", "up"}]
        BY <1>0 DEF Break, RelayType
  <2> QED
      BY <2>1, <2>2, <2>3, <2>4 DEF Shrinks
<1> QED
    BY <1>2, <1>3, <1>4, ShrinkStep
-----------------------------------------------------------------------------
(* The relay. *)

\* Relayed to the party that listens, and kept.
KeptStep(u, t, payload) ==
    log'[u] = log[u] \/ log'[u] = <<>> \/ (u = t /\ log'[u] = log[u] \o payload)

LEMMA PublishedType ==
    ASSUME NEW p \in Parties, NEW t \in Topics, NEW payload \in Seq(Messages),
           NEW shown \in [Parties -> Seq(Messages)], RelayType, Published(p, t, payload, shown)
    PROVE  /\ inb' \in [Parties -> Seq(Messages)]
           /\ inb'[p] = shown[p]
           /\ inb'[Other(p)] = IF at[Other(p)] = t THEN shown[Other(p)] \o payload
                               ELSE shown[Other(p)]
           /\ log' \in [Topics -> Seq(Messages)] /\ made' \subseteq Topics
           /\ \A u \in Topics : KeptStep(u, t, payload)
<1>1. Other(p) \in Parties /\ Other(p) # p
      BY OtherParty, Shapes
<1>2. shown[Other(p)] \o payload \in Seq(Messages)
      BY <1>1
<1>3. /\ inb' \in [Parties -> Seq(Messages)]
      /\ inb'[p] = shown[p]
      /\ inb'[Other(p)] = IF at[Other(p)] = t THEN shown[Other(p)] \o payload
                          ELSE shown[Other(p)]
      BY <1>1, <1>2 DEF Published
<1>4. log[t] \o payload \in Seq(Messages) /\ <<>> \in Seq(Messages)
      BY DEF RelayType
<1>5. /\ log' \in [Topics -> Seq(Messages)] /\ made' \subseteq Topics
      /\ \A u \in Topics : KeptStep(u, t, payload)
      BY <1>4 DEF Published, RelayType, KeptStep
<1> QED
    BY <1>3, <1>5

\* What the relay may take from a stream, and what that makes it keep and deliver.
LEMMA TakenFrom ==
    ASSUME Being, NEW p \in Parties, RelayTakes(p)
    PROVE  LET r == Head(out[p]) IN
           /\ out[p] # <<>> /\ r \in Requests
           /\ "kept" \notin disturbed =>
                /\ r.payload \in Seq(Mine(call, OnRUA(sess["caller"], r.topic)))
                /\ p = "callee" => r.payload \in Seq(Mine(call, FALSE))
                /\ p = "callee" /\ r.op = "subscribe" =>
                        r.topic \in {AKETopic, sess["callee"].topic}
<1> DEFINE r == Head(out[p])
<1>1. out[p] # <<>> /\ out[p] \in Seq(Requests)
      BY BeingParts DEF RelayTakes, RelayType
<1>2. r \in Requests
      BY <1>1, Shorter
<1> HIDE DEF r
<1>3. ASSUME "kept" \notin disturbed
      PROVE  /\ r.payload \in Seq(Mine(call, OnRUA(sess["caller"], r.topic)))
             /\ p = "callee" => r.payload \in Seq(Mine(call, FALSE))
             /\ p = "callee" /\ r.op = "subscribe" => r.topic \in {AKETopic, sess["callee"].topic}
  <2>1. CASE p = "caller"
    <3>1. r \in CallerRequests(call, sess["caller"])
          BY <1>1, <1>3, <2>1, Shorter, BeingParts DEF Clean, CleanOut, r
    <3> QED
        BY <2>1, <3>1 DEF CallerRequests
  <2>2. CASE p = "callee"
    <3>1. r \in CalleeRequests(call, sess["callee"])
          BY <1>1, <1>3, <2>2, Shorter, BeingParts DEF Clean, CleanOut, r
    <3>2. Mine(call, FALSE) \subseteq Mine(call, OnRUA(sess["caller"], r.topic))
          BY DEF Mine
    <3>3. r.payload \in Seq(Mine(call, FALSE))
          BY <3>1 DEF CalleeRequests
    <3>4. r.payload \in Seq(Mine(call, OnRUA(sess["caller"], r.topic)))
          BY ZenonT(40), <3>2, <3>3, SeqMonotonic
    <3> QED
        BY <3>1, <3>3, <3>4 DEF CalleeRequests
  <2> QED
      BY <2>1, <2>2, OtherParty
<1> QED
    BY <1>1, <1>2, <1>3 DEF r

\* What the callee has been, or is, shown of the topic it listens to is where a RUA
\* request may be.
LEMMA PlaceAllows ==
    ASSUME Placed, NEW t, t \in {AKETopic, sess["callee"].topic}
    PROVE  Mine(call, OnRUA(sess["caller"], t))
               \subseteq Mine(call, OnRUA(sess["caller"], sess["callee"].topic))
BY DEF Placed, Mine, OnRUA

LEMMA StepRelayTakes == ASSUME Being, NEW p \in Parties, RelayTakes(p) PROVE Being'
<1> DEFINE r == Head(out[p])
           shown == IF r.op = "subscribe"
                      THEN [inb EXCEPT ![p] = @ \o Replay(p, r.topic)] ELSE inb
<1>0. ControlType /\ SessType /\ RelayType /\ Linked /\ Placed /\ Clean
      BY BeingParts
<1>1. /\ out[p] # <<>> /\ r \in Requests
      /\ "kept" \notin disturbed =>
            /\ r.payload \in Seq(Mine(call, OnRUA(sess["caller"], r.topic)))
            /\ p = "callee" => r.payload \in Seq(Mine(call, FALSE))
            /\ p = "callee" /\ r.op = "subscribe" => r.topic \in {AKETopic, sess["callee"].topic}
      BY TakenFrom
<1>2. r.topic \in Topics /\ r.payload \in Seq(Messages) /\ r.op \in {"publish", "subscribe"}
      BY <1>1 DEF Requests
<1>3. /\ out' = [out EXCEPT ![p] = Tail(@)]
      /\ UNCHANGED <<call, phone, sess, cache, link, ghost, verdicts>>
      /\ at' = (IF r.op = "subscribe" THEN [at EXCEPT ![p] = r.topic] ELSE at)
      /\ Published(p, r.topic, r.payload, shown) \/ (shown = inb /\ UNCHANGED <<inb, log, made>>)
      BY <1>2 DEF RelayTakes
<1>4. ControlType' /\ Calm
      BY <1>0, <1>3, CalmNothing DEF ControlType
<1>5. LinksStay
  <2>1. link' = link /\ link[p] = "up"
        BY <1>3 DEF RelayTakes
  <2> SUFFICES ASSUME NEW q \in Parties, link[q] = "off"
               PROVE  out'[q] = <<>> /\ inb'[q] = <<>> /\ at'[q] = None
      BY <2>1 DEF LinksStay
  <2>2. q # p /\ at[q] = None /\ at[q] # r.topic
        BY <1>0, <1>2, <2>1, Shapes DEF Linked
  <2>3. out'[q] = <<>> /\ at'[q] = None
        BY <1>0, <1>3, <2>2 DEF Linked, RelayType
  <2>4. inb'[q] = inb[q]
        BY ZenonT(40), <1>0, <1>3, <2>2 DEF Published, RelayType
  <2> QED
      BY <1>0, <2>3, <2>4 DEF Linked
<1>6. Replay(p, r.topic) \in Seq(Messages)
      BY <1>0, <1>2, ReplayKept DEF RelayType
<1>7. shown \in [Parties -> Seq(Messages)]
  <2>1. inb[p] \o Replay(p, r.topic) \in Seq(Messages)
        BY <1>0, <1>6 DEF RelayType
  <2> QED
      BY <1>0, <2>1 DEF RelayType
<1>8. shown[p] = (IF r.op = "subscribe" THEN inb[p] \o Replay(p, r.topic) ELSE inb[p])
      BY <1>0 DEF RelayType
<1>9. \A q \in Parties \ {p} : shown[q] = inb[q]
      BY <1>0 DEF RelayType
<1> HIDE DEF r, shown
<1>10. /\ inb'[p] = shown[p] \/ inb'[p] = inb[p]
      /\ \/ inb'[Other(p)] = inb[Other(p)]
         \/ at[Other(p)] = r.topic /\ inb'[Other(p)] = inb[Other(p)] \o r.payload
      /\ \A u \in Topics : KeptStep(u, r.topic, r.payload)
  <2>1. shown[Other(p)] = inb[Other(p)]
        BY <1>9, OtherParty, Shapes
  <2>2. CASE Published(p, r.topic, r.payload, shown)
    <3>1. /\ inb'[p] = shown[p]
          /\ inb'[Other(p)] = IF at[Other(p)] = r.topic THEN shown[Other(p)] \o r.payload
                              ELSE shown[Other(p)]
          /\ \A u \in Topics : KeptStep(u, r.topic, r.payload)
          BY <1>0, <1>2, <1>7, <2>2, PublishedType
    <3> QED
        BY <2>1, <3>1
  <2>3. CASE UNCHANGED <<inb, log, made>>
        BY <1>3, <2>3 DEF KeptStep
  <2> QED
      BY <1>3, <2>2, <2>3
<1>11. RelayType'
  <2>1. out' \in [Parties -> Seq(Requests)]
        BY <1>0, <1>1, <1>3, Shorter DEF RelayType
  <2>2. at' \in [Parties -> Topics \cup {None}]
        BY <1>0, <1>2, <1>3 DEF RelayType
  <2>3. inb' \in [Parties -> Seq(Messages)] /\ log' \in [Topics -> Seq(Messages)]
        /\ made' \subseteq Topics
        BY <1>0, <1>2, <1>3, <1>7, PublishedType DEF RelayType
  <2> QED
      BY <1>0, <1>3, <2>1, <2>2, <2>3 DEF RelayType
<1>12. Clean'
  <2> SUFFICES ASSUME "kept" \notin disturbed
               PROVE  CleanLog' /\ CleanOut' /\ CleanInb' /\ CleanPlace'
      BY <1>3 DEF Clean
  <2>0. CleanLog /\ CleanOut /\ CleanInb /\ CleanPlace
        BY <1>0 DEF Clean
  <2>1. CleanLog'
    <3> SUFFICES ASSUME NEW t \in Topics
                 PROVE  log'[t] \in Seq(Mine(call, OnRUA(sess["caller"], t)))
        BY <1>3 DEF CleanLog
    <3>1. log[t] \in Seq(Mine(call, OnRUA(sess["caller"], t)))
          BY <2>0 DEF CleanLog
    <3>2. KeptStep(t, r.topic, r.payload)
          BY <1>10
    <3>3. r.payload \in Seq(Mine(call, OnRUA(sess["caller"], r.topic)))
          BY <1>1
    <3> DEFINE S == Mine(call, OnRUA(sess["caller"], t))
    <3> HIDE DEF S
    <3>4. log[t] \in Seq(S) /\ (t = r.topic => r.payload \in Seq(S))
          BY <3>1, <3>3 DEF S
    <3>5. log'[t] \in Seq(S)
      <4>1. CASE t = r.topic
        <5>1. log[t] \o r.payload \in Seq(S) /\ <<>> \in Seq(S)
              BY <3>4, <4>1, Joined, EmptySeq
        <5> QED
            BY <3>2, <3>4, <5>1 DEF KeptStep
      <4>2. CASE t # r.topic
            BY <3>2, <3>4, <4>2, EmptySeq DEF KeptStep
      <4> QED
          BY <4>1, <4>2
    <3> QED
        BY <3>5 DEF S
  <2>2. CleanOut'
    <3>1. CASE p = "caller"
      <4>1. out'["caller"] = Tail(out["caller"]) /\ out'["callee"] = out["callee"]
            BY <1>0, <1>3, <3>1, Shapes DEF RelayType
      <4>2. Tail(out["caller"]) \in Seq(CallerRequests(call, sess["caller"]))
            BY <1>1, <2>0, <3>1, Shorter DEF CleanOut
      <4> QED
          BY <1>3, <2>0, <4>1, <4>2 DEF CleanOut
    <3>2. CASE p = "callee"
      <4>1. out'["callee"] = Tail(out["callee"]) /\ out'["caller"] = out["caller"]
            BY <1>0, <1>3, <3>2, Shapes DEF RelayType
      <4>2. Tail(out["callee"]) \in Seq(CalleeRequests(call, sess["callee"]))
            BY <1>1, <2>0, <3>2, Shorter DEF CleanOut
      <4> QED
          BY <1>3, <2>0, <4>1, <4>2 DEF CleanOut
    <3> QED
        BY <3>1, <3>2, OtherParty
  <2>3. Replay(p, r.topic) \in Seq(Mine(call, OnRUA(sess["caller"], r.topic)))
        BY <1>2, <2>0, ReplayKept DEF CleanLog
  <2>4. \A u : Mine(call, OnRUA(sess["caller"], u)) \subseteq Mine(call, TRUE)
        BY DEF Mine
  <2>5. Mine(call, FALSE) \subseteq Mine(call, TRUE)
        BY DEF Mine
  <2>6. CASE p = "caller"
    <3>1. inb'["caller"] \in Seq(Mine(call, TRUE))
      <4>1. Replay(p, r.topic) \in Seq(Mine(call, TRUE))
            BY <2>3, <2>4, SeqMonotonic
      <4>2. shown["caller"] \in Seq(Mine(call, TRUE))
        <5>1. inb["caller"] \in Seq(Mine(call, TRUE))
              BY <2>0 DEF CleanInb
        <5> QED
            BY <1>8, <2>6, <4>1, <5>1, Joined
      <4>3. inb'["caller"] = shown["caller"] \/ inb'["caller"] = inb["caller"]
            BY <1>10, <2>6
      <4> QED
          BY <2>0, <4>2, <4>3 DEF CleanInb
    <3>2. inb'["callee"] \in Seq(Mine(call, OnRUA(sess["caller"], sess["callee"].topic)))
      <4>1. shown["callee"] = inb["callee"]
            BY <1>9, <2>6, Shapes
      <4>2. \/ inb'["callee"] = inb["callee"]
            \/ at["callee"] = r.topic /\ inb'["callee"] = inb["callee"] \o r.payload
            BY <1>10, <2>6, OtherParty
      <4>3. ASSUME at["callee"] = r.topic
            PROVE  r.payload \in Seq(Mine(call, OnRUA(sess["caller"], sess["callee"].topic)))
        <5>1. r.topic \in {AKETopic, sess["callee"].topic}
              BY <1>2, <2>0, <4>3, Shapes DEF CleanPlace
        <5> QED
            BY <1>0, <1>1, <2>0, <5>1, PlaceAllows, SeqMonotonic
      <4>4. inb["callee"] \in Seq(Mine(call, OnRUA(sess["caller"], sess["callee"].topic)))
            BY <2>0 DEF CleanInb
      <4> QED
          BY <4>2, <4>3, <4>4, Joined
    <3>3. at'["callee"] = at["callee"]
          BY <1>0, <1>3, <2>6, Shapes DEF RelayType
    <3> QED
        BY <1>3, <2>0, <2>1, <2>2, <3>1, <3>2, <3>3 DEF CleanInb, CleanPlace
  <2>7. CASE p = "callee"
    <3>1. inb'["caller"] \in Seq(Mine(call, TRUE))
      <4>1. shown["caller"] = inb["caller"]
            BY <1>9, <2>7, Shapes
      <4>2. r.payload \in Seq(Mine(call, TRUE))
            BY <1>1, <2>5, <2>7, SeqMonotonic
      <4>3. inb'["caller"] = inb["caller"] \/ inb'["caller"] = inb["caller"] \o r.payload
            BY <1>10, <2>7, OtherParty
      <4>4. inb["caller"] \in Seq(Mine(call, TRUE))
            BY <2>0 DEF CleanInb
      <4> QED
          BY <4>2, <4>3, <4>4, Joined
    <3>2. inb'["callee"] \in Seq(Mine(call, OnRUA(sess["caller"], sess["callee"].topic)))
      <4>1. ASSUME r.op = "subscribe"
            PROVE  Replay(p, r.topic)
                        \in Seq(Mine(call, OnRUA(sess["caller"], sess["callee"].topic)))
        <5>1. r.topic \in {AKETopic, sess["callee"].topic}
              BY <1>1, <2>7, <4>1
        <5> QED
            BY <1>0, <2>3, <5>1, PlaceAllows, SeqMonotonic
      <4>2. shown["callee"] \in Seq(Mine(call, OnRUA(sess["caller"], sess["callee"].topic)))
        <5>1. inb["callee"] \in Seq(Mine(call, OnRUA(sess["caller"], sess["callee"].topic)))
              BY <2>0 DEF CleanInb
        <5> QED
            BY <1>8, <2>7, <4>1, <5>1, Joined
      <4>3. inb'["callee"] = shown["callee"] \/ inb'["callee"] = inb["callee"]
            BY <1>10, <2>7
      <4> QED
          BY <2>0, <4>2, <4>3 DEF CleanInb
    <3>3. at'["callee"] = at["callee"] \/ at'["callee"] \in {AKETopic, sess["callee"].topic}
          BY <1>0, <1>1, <1>3, <2>7, Shapes DEF RelayType
    <3> QED
        BY <1>3, <2>0, <2>1, <2>2, <3>1, <3>2, <3>3 DEF CleanInb, CleanPlace
  <2> QED
      BY <2>6, <2>7, OtherParty
<1> QED
    BY <1>4, <1>5, <1>11, <1>12, CalmStep
-----------------------------------------------------------------------------
(* Steps that move DIA on. *)

\* The caller leaves no topic it has sent a RUA request on; the callee leaves no topic
\* but the AKE topic.
Moves ==
    /\ call' = call
    /\ \A t : OnRUA(sess["caller"], t) => OnRUA(sess'["caller"], t)
    /\ \/ sess'["callee"].topic = sess["callee"].topic
       \/ sess["callee"].topic \in {None, AKETopic}

\* What was clean before such a step is clean after it.
LEMMA Carry ==
    ASSUME Placed, Moves
    PROVE  /\ \A t : Mine(call, OnRUA(sess["caller"], t))
                        \subseteq Mine(call', OnRUA(sess'["caller"], t))
           /\ CallerRequests(call, sess["caller"]) \subseteq CallerRequests(call', sess'["caller"])
           /\ CalleeRequests(call, sess["callee"]) \subseteq CalleeRequests(call', sess'["callee"])
           /\ Mine(call, OnRUA(sess["caller"], sess["callee"].topic))
                 \subseteq Mine(call', OnRUA(sess'["caller"], sess'["callee"].topic))
           /\ sess["callee"].topic \in {None, AKETopic, sess'["callee"].topic}
<1>1. \A t : Mine(call, OnRUA(sess["caller"], t)) \subseteq Mine(call', OnRUA(sess'["caller"], t))
      BY DEF Moves, Mine
<1>2. CallerRequests(call, sess["caller"]) \subseteq CallerRequests(call', sess'["caller"])
  <2> SUFFICES ASSUME NEW r \in CallerRequests(call, sess["caller"])
               PROVE  r \in CallerRequests(call', sess'["caller"])
      OBVIOUS
  <2>1. r \in Requests /\ r.payload \in Seq(Mine(call, OnRUA(sess["caller"], r.topic)))
        BY DEF CallerRequests
  <2>2. r.payload \in Seq(Mine(call', OnRUA(sess'["caller"], r.topic)))
        BY <1>1, <2>1, SeqMonotonic
  <2> QED
      BY <2>1, <2>2 DEF CallerRequests
<1>3. CalleeRequests(call, sess["callee"]) \subseteq CalleeRequests(call', sess'["callee"])
  <2> SUFFICES ASSUME NEW r \in CalleeRequests(call, sess["callee"])
               PROVE  r \in CalleeRequests(call', sess'["callee"])
      OBVIOUS
  <2>1. /\ r \in Requests /\ r.payload \in Seq(Mine(call, FALSE))
        /\ r.op = "subscribe" => r.topic \in {AKETopic, sess["callee"].topic}
        BY DEF CalleeRequests
  <2>2. r.topic # None
        BY <2>1, Shapes DEF Requests
  <2>3. r.op = "subscribe" => r.topic \in {AKETopic, sess'["callee"].topic}
        BY <2>1, <2>2 DEF Moves
  <2> QED
      BY <2>1, <2>3 DEF CalleeRequests, Moves
<1>4. Mine(call, OnRUA(sess["caller"], sess["callee"].topic))
          \subseteq Mine(call', OnRUA(sess'["caller"], sess'["callee"].topic))
      BY DEF Moves, Mine, Placed, OnRUA
<1>5. sess["callee"].topic \in {None, AKETopic, sess'["callee"].topic}
      BY DEF Moves
<1> QED
    BY <1>1, <1>2, <1>3, <1>4, <1>5

LEMMA StillMoves == ASSUME Still, call' = call PROVE Moves
BY StillSets DEF Moves

\* Requests are added to the queue of a relay session.
LEMMA SentClean ==
    ASSUME Placed, Moves, RelayType, CleanOut, NEW p \in Parties, NEW requests,
           p = "caller" => requests \in Seq(CallerRequests(call', sess'["caller"])),
           p = "callee" => requests \in Seq(CalleeRequests(call', sess'["callee"])),
           out' = [out EXCEPT ![p] = @ \o requests]
    PROVE  CleanOut'
<1> DEFINE R == CallerRequests(call', sess'["caller"])
           E == CalleeRequests(call', sess'["callee"])
<1>1. out["caller"] \in Seq(R) /\ out["callee"] \in Seq(E)
      BY Carry, SeqMonotonic DEF CleanOut
<1> HIDE DEF R, E
<1>2. CASE p = "caller"
  <2>1. out'["caller"] = out["caller"] \o requests /\ out'["callee"] = out["callee"]
        BY <1>2, Shapes DEF RelayType
  <2>2. out["caller"] \o requests \in Seq(R)
        BY <1>1, <1>2, Joined DEF R
  <2> QED
      BY <1>1, <2>1, <2>2 DEF CleanOut, R, E
<1>3. CASE p = "callee"
  <2>1. out'["callee"] = out["callee"] \o requests /\ out'["caller"] = out["caller"]
        BY <1>3, Shapes DEF RelayType
  <2>2. out["callee"] \o requests \in Seq(E)
        BY <1>1, <1>3, Joined DEF E
  <2> QED
      BY <1>1, <2>1, <2>2 DEF CleanOut, R, E
<1> QED
    BY <1>2, <1>3, OtherParty

\* Nothing else changes at the relay; events may have been consumed.
LEMMA MovesClean ==
    ASSUME Placed, Clean, Moves, disturbed \subseteq disturbed', log' = log, at' = at,
           \A p \in Parties : Shrunk(inb[p], inb'[p]),
           "kept" \notin disturbed => CleanOut'
    PROVE  Clean'
<1> SUFFICES ASSUME "kept" \notin disturbed'
             PROVE  CleanLog' /\ CleanOut' /\ CleanInb' /\ CleanPlace'
    BY DEF Clean
<1>0. CleanLog /\ CleanInb /\ CleanPlace /\ CleanOut'
      BY DEF Clean
<1>1. CleanLog'
  <2> SUFFICES ASSUME NEW t \in Topics
               PROVE  log'[t] \in Seq(Mine(call', OnRUA(sess'["caller"], t)))
      BY DEF CleanLog
  <2>1. log[t] \in Seq(Mine(call, OnRUA(sess["caller"], t)))
        BY <1>0 DEF CleanLog
  <2> QED
      BY <2>1, Carry, SeqMonotonic
<1>2. CleanInb'
  <2>1. inb'["caller"] \in Seq(Mine(call', TRUE))
        BY <1>0, Shapes, ShrunkIn DEF CleanInb, Moves
  <2>2. inb'["callee"] \in Seq(Mine(call, OnRUA(sess["caller"], sess["callee"].topic)))
        BY <1>0, Shapes, ShrunkIn DEF CleanInb
  <2>3. inb'["callee"] \in Seq(Mine(call', OnRUA(sess'["caller"], sess'["callee"].topic)))
        BY <2>2, Carry, SeqMonotonic
  <2> QED
      BY <2>1, <2>3 DEF CleanInb
<1>3. CleanPlace'
      BY <1>0, Carry DEF CleanPlace
<1> QED
    BY <1>0, <1>1, <1>2, <1>3

\* A handler of p, which has an event, hence a relay session.
LEMMA HandledLinked ==
    ASSUME Linked, RelayType, NEW p \in Parties, inb[p] # <<>>, Consumed(p),
           UNCHANGED <<call, link, at>>, \A q \in Parties \ {p} : out'[q] = out[q],
           \A q \in Parties \ {p} : sess'[q] = sess[q],
           sess'[p].topic # None, sess'[p].pc # "starting", sip' = "invited" => sip = "invited"
    PROVE  Linked'
<1>1. link[p] # "off" /\ call # 0
      BY DEF Linked
<1>2. \A q \in Parties \ {p} : inb'[q] = inb[q]
      BY DEF RelayType
<1>3. \A q \in Parties :
          /\ link'[q] = "off" => out'[q] = <<>> /\ inb'[q] = <<>> /\ at'[q] = None
          /\ link'[q] # "off" => call' # 0 /\ sess'[q].topic # None
          /\ sess'[q].pc = "starting" =>
                call' # 0 /\ link'[q] = "off" /\ sess'[q].mode = "ake" /\ ~sess'[q].complete
  <2> TAKE q \in Parties
  <2>1. CASE q = p
        BY <1>1, <2>1
  <2>2. CASE q # p
        BY <1>2, <2>2 DEF Linked
  <2> QED
      BY <2>1, <2>2
<1>4. sip' = "invited" =>
          call' # 0 /\ link'["callee"] = "off" /\ sess'["callee"].pc # "starting"
      BY Shapes DEF Linked
<1> QED
    BY <1>3, <1>4 DEF Linked

\* The head of what p has been delivered.
LEMMA HeadIn ==
    ASSUME Being, NEW p \in Parties, inb[p] # <<>>
    PROVE  /\ Head(inb[p]) \in Messages /\ link[p] # "off" /\ call \in 1 .. MaxCalls
           /\ sess[p].topic \in Topics /\ sess[p] \in SessionType
           /\ "kept" \notin disturbed =>
                /\ Head(inb[p]).call = call
                /\ p = "callee" /\ Head(inb[p]).kind = "RUARequest" =>
                        OnRUA(sess["caller"], sess["callee"].topic)
<1>0. ControlType /\ SessType /\ RelayType /\ Linked /\ Clean
      BY BeingParts
<1>1. Head(inb[p]) \in Messages
      BY <1>0, Shorter DEF RelayType
<1>2. link[p] # "off" /\ call \in 1 .. MaxCalls
      BY <1>0 DEF Linked, ControlType
<1>3. sess[p] \in SessionType
      BY <1>0 DEF SessType
<1>4. sess[p].topic \in Topics
      BY <1>0, <1>2, <1>3 DEF Linked, SessionType
<1>5. ASSUME "kept" \notin disturbed
      PROVE  /\ Head(inb[p]).call = call
             /\ p = "callee" /\ Head(inb[p]).kind = "RUARequest" =>
                     OnRUA(sess["caller"], sess["callee"].topic)
  <2>1. CASE p = "caller"
    <3>1. Head(inb[p]) \in Mine(call, TRUE)
          BY <1>0, <1>5, <2>1, Shorter DEF Clean, CleanInb
    <3> QED
        BY <2>1, <3>1 DEF Mine
  <2>2. CASE p = "callee"
    <3>1. Head(inb[p]) \in Mine(call, OnRUA(sess["caller"], sess["callee"].topic))
          BY <1>0, <1>5, <2>2, Shorter DEF Clean, CleanInb
    <3> QED
        BY <3>1 DEF Mine
  <2> QED
      BY <2>1, <2>2, OtherParty
<1> QED
    BY <1>1, <1>2, <1>3, <1>4, <1>5
\* A publication of a message that is not a RUA request may go anywhere.
LEMMA PlainRequest ==
    ASSUME NEW t \in Topics, NEW m \in Messages, m.kind # "RUARequest", NEW s
    PROVE  /\ Publish(t, m) \in CallerRequests(m.call, s)
           /\ Publish(t, m) \in CalleeRequests(m.call, s)
<1>1. \A there : m \in Mine(m.call, there)
      BY DEF Mine
<1>2. \A there : <<m>> \in Seq(Mine(m.call, there))
      BY <1>1
<1>3. Publish(t, m) \in Requests
      BY Shapes
<1>4. Publish(t, m).payload = <<m>> /\ Publish(t, m).op = "publish"
      BY DEF Publish
<1> QED
    BY <1>2, <1>3, <1>4 DEF CallerRequests, CalleeRequests

\* The same of a message of this call.
LEMMA PlainMsg ==
    ASSUME call \in 1 .. MaxCalls, NEW p \in Parties, NEW t \in Topics, NEW s,
           NEW kind \in Kinds \ {"RUARequest"}
    PROVE  /\ Publish(t, Msg(kind, p)) \in CallerRequests(call, s)
           /\ Publish(t, Msg(kind, p)) \in CalleeRequests(call, s)
<1>1. Msg(kind, p) \in Messages
      BY Shapes
<1>2. Msg(kind, p).kind # "RUARequest" /\ Msg(kind, p).call = call
      BY DEF Msg
<1> QED
    BY <1>1, <1>2, PlainRequest

\* The stream opens: the party is shown what its topic keeps.
LEMMA StepConnect == ASSUME Being, NEW p \in Parties, Connect(p) PROVE Being'
<1>0. ControlType /\ SessType /\ RelayType /\ Linked /\ Clean
      BY BeingParts
<1>1. sess[p].topic \in Topics
      BY <1>0 DEF Connect, Linked, SessType, SessionType
<1>2. Calm
      BY <1>0, CalmNothing DEF Connect, ControlType
<1>3. LinksStay
      BY <1>0 DEF Connect, LinksStay, Linked, RelayType
<1>4. Replay(p, sess[p].topic) \in Seq(Messages)
      BY <1>0, <1>1, ReplayKept DEF RelayType
<1>5. RelayType'
      BY <1>0, <1>1, <1>4 DEF Connect, RelayType
<1>6. Clean'
  <2> SUFFICES ASSUME "kept" \notin disturbed
               PROVE  CleanLog' /\ CleanOut' /\ CleanInb' /\ CleanPlace'
      BY DEF Clean, Connect
  <2>0. CleanLog /\ CleanOut /\ CleanInb /\ CleanPlace
        BY <1>0 DEF Clean
  <2>1. CleanLog' /\ CleanOut'
        BY <2>0 DEF CleanLog, CleanOut, Connect
  <2>2. Replay(p, sess[p].topic) \in Seq(Mine(call, OnRUA(sess["caller"], sess[p].topic)))
        BY <1>1, <2>0, ReplayKept DEF CleanLog
  <2>3. UNCHANGED <<call, sess>>
        BY DEF Connect
  <2>4. CASE p = "caller"
    <3>1. Mine(call, OnRUA(sess["caller"], sess[p].topic)) \subseteq Mine(call, TRUE)
          BY DEF Mine
    <3>2. inb'["caller"] \in Seq(Mine(call, TRUE))
          BY <1>0, <2>2, <2>4, <3>1, SeqMonotonic, Shapes DEF Connect, RelayType
    <3>3. inb'["callee"] = inb["callee"] /\ at'["callee"] = at["callee"]
          BY <1>0, <2>4, Shapes DEF Connect, RelayType
    <3> QED
        BY <2>0, <2>1, <2>3, <3>2, <3>3 DEF CleanInb, CleanPlace
  <2>5. CASE p = "callee"
    <3>1. inb'["callee"] = Replay(p, sess[p].topic) /\ inb'["caller"] = inb["caller"]
          BY <1>0, <2>5, Shapes DEF Connect, RelayType
    <3>2. at'["callee"] = sess["callee"].topic
          BY <1>0, <2>5, Shapes DEF Connect, RelayType
    <3> QED
        BY <2>0, <2>1, <2>2, <2>3, <2>5, <3>1, <3>2 DEF CleanInb, CleanPlace
  <2> QED
      BY <2>4, <2>5, OtherParty
<1> QED
    BY <1>2, <1>3, <1>5, <1>6, CalmStep

\* A request is added by a step that leaves DIA where it is.
LEMMA StillSent ==
    ASSUME Being, Still, NEW p \in Parties, NEW m \in Messages, link[p] # "off",
           m.kind # "RUARequest", m.call = call, sess[p].topic \in Topics,
           UNCHANGED <<call, link, at, log, made>>, disturbed \subseteq disturbed',
           out' = [out EXCEPT ![p] = @ \o <<Publish(sess[p].topic, m)>>],
           inb' = [q \in Parties |-> inb'[q]], \A q \in Parties : Shrunk(inb[q], inb'[q])
    PROVE  RelayType' /\ LinksStay /\ Clean'
<1> DEFINE r == Publish(sess[p].topic, m)
<1>0. RelayType /\ Linked /\ Placed /\ Clean /\ Moves
      BY BeingParts, StillMoves
<1>1. /\ r \in Requests
      /\ r \in CallerRequests(call, sess'["caller"]) /\ r \in CalleeRequests(call, sess'["callee"])
      BY PlainRequest, Shapes
<1> HIDE DEF r
<1>2. out[p] \o <<r>> \in Seq(Requests)
      BY <1>0, <1>1 DEF RelayType
<1>3. \A q \in Parties : inb'[q] \in Seq(Messages)
      BY <1>0, ShrunkIn DEF RelayType
<1>4. out' = [out EXCEPT ![p] = @ \o <<r>>]
      BY DEF r
<1>5. RelayType'
  <2>1. inb' \in [Parties -> Seq(Messages)]
        BY <1>3
  <2>2. out' \in [Parties -> Seq(Requests)]
        BY <1>0, <1>2, <1>4 DEF RelayType
  <2> QED
      BY <1>0, <2>1, <2>2 DEF RelayType
<1>6. LinksStay
  <2> SUFFICES ASSUME NEW q \in Parties, link[q] = "off"
               PROVE  out'[q] = <<>> /\ inb'[q] = <<>> /\ at'[q] = None
      BY DEF LinksStay
  <2>1. q # p /\ inb[q] = <<>>
        BY <1>0 DEF Linked
  <2>2. inb'[q] = <<>>
        BY <2>1 DEF Shrunk
  <2>3. out'[q] = out[q]
        BY <1>0, <1>4, <2>1 DEF RelayType
  <2> QED
      BY <1>0, <2>2, <2>3 DEF Linked
<1>7. ASSUME "kept" \notin disturbed
      PROVE  CleanOut'
  <2>1. CleanOut
        BY <1>0, <1>7 DEF Clean
  <2>2. /\ p = "caller" => <<r>> \in Seq(CallerRequests(call', sess'["caller"]))
        /\ p = "callee" => <<r>> \in Seq(CalleeRequests(call', sess'["callee"]))
        BY <1>0, <1>1 DEF Moves
  <2> QED
      BY <1>0, <1>4, <2>1, <2>2, SentClean
<1> QED
    BY <1>0, <1>5, <1>6, <1>7, MovesClean

\* handleCallClosed: the BYE.
LEMMA StepClosed == ASSUME Being, NEW p \in Parties, HandleClosed(p) PROVE Being'
<1>0. ControlType /\ SessType /\ RelayType /\ Linked
      BY BeingParts
<1>1. ControlType'
      BY <1>0, Shorter DEF HandleClosed, ControlType
<1>2. Calm
      BY <1>0, <1>1, StillClosed DEF HandleClosed, Calm
<1>3. CASE sess[p].reg # "yes" \/ link[p] = "off"
  <2>1. UNCHANGED net
        BY <1>3 DEF HandleClosed, net
  <2> QED
      BY <1>0, <1>2, <2>1, NetAlone, ShrinkStep
<1>4. CASE sess[p].reg = "yes" /\ link[p] # "off"
  <2>1. call \in 1 .. MaxCalls /\ sess[p].topic \in Topics
        BY <1>0, <1>4 DEF Linked, ControlType, SessType, SessionType
  <2>2. /\ Msg("Bye", p) \in Messages
        /\ Msg("Bye", p).kind # "RUARequest" /\ Msg("Bye", p).call = call
        BY <2>1, Shapes DEF Msg, Kinds
  <2>3. out[p] \in Seq(Requests) /\ Publish(sess[p].topic, Msg("Bye", p)) \in Requests
        BY <1>0, <2>1, <2>2, Shapes DEF RelayType
  <2>4. Append(out[p], Publish(sess[p].topic, Msg("Bye", p)))
            = out[p] \o <<Publish(sess[p].topic, Msg("Bye", p))>>
        BY <2>3, AppendIsConcat
  <2>5. out' = [out EXCEPT ![p] = @ \o <<Publish(sess[p].topic, Msg("Bye", p))>>]
        BY <1>4, <2>4 DEF HandleClosed
  <2>6. /\ inb' = [q \in Parties |-> inb'[q]] /\ \A q \in Parties : Shrunk(inb[q], inb'[q])
        /\ UNCHANGED <<call, link, at, log, made, disturbed>>
        BY <1>0 DEF HandleClosed, RelayType, Shrunk
  <2>7. RelayType' /\ LinksStay /\ Clean'
        BY <1>2, <1>4, <2>1, <2>2, <2>5, <2>6, StillSent DEF Calm, StillStep
  <2> QED
      BY <1>2, <2>7, CalmStep
<1> QED
    BY <1>3, <1>4

\* A handler fails: the callee's rejects the call, the caller's may have sent AKE complete.
LEMMA StepFails == ASSUME Being, NEW p \in Parties, HandlerFails(p) PROVE Being'
<1>0. ControlType /\ SessType /\ RelayType /\ Linked
      BY BeingParts
<1>1. /\ faults' \in 0 .. MaxFaults /\ strangers' = strangers
      /\ disturbed \subseteq disturbed'
      /\ disturbed' \subseteq {"caches", "kept", "fault", "timeout"}
      BY <1>0, FaultType DEF HandlerFails, ControlType
<1>2. /\ sip' = sip \/ sip' = "over"
      /\ sip' \in {"none", "invited", "ringing", "up", "over"}
      /\ events' \in [Parties -> Seq({"established", "closed"})]
      /\ verdicts' \in Seq({"accept", "reject"})
  <2>1. CASE p = "callee"
        BY <1>0, <2>1, RejectType DEF HandlerFails, RejectOnError
  <2>2. CASE p # "callee"
        BY <1>0, <2>2 DEF HandlerFails, ControlType
  <2> QED
      BY <2>1, <2>2
<1>3. ControlType'
      BY <1>0, <1>1, <1>2 DEF HandlerFails, ControlType
<1>4. Calm
      BY <1>0, <1>1, <1>2, <1>3, StillFails DEF HandlerFails, Calm
<1>5. inb[p] # <<>>
      BY DEF HandlerFails, HasEvent
<1>6. CASE UNCHANGED out
  <2>1. LinksStay /\ Shrinks
        BY <1>0, <1>5, <1>6, TakenShrinks DEF HandlerFails
  <2> QED
      BY <1>4, <2>1, ShrinkStep
<1>7. CASE ~UNCHANGED out
  <2>1. Then(p, <<Publish(sess[p].topic, Msg("AKEComplete", p))>>)
        BY <1>7 DEF HandlerFails
  <2>2. link[p] # "off" /\ call \in 1 .. MaxCalls /\ sess[p].topic \in Topics
        BY <1>5, HeadIn
  <2>3. /\ Msg("AKEComplete", p) \in Messages
        /\ Msg("AKEComplete", p).kind # "RUARequest" /\ Msg("AKEComplete", p).call = call
        BY <2>2, Shapes DEF Msg, Kinds
  <2>4. /\ inb' = [q \in Parties |-> inb'[q]] /\ \A q \in Parties : Shrunk(inb[q], inb'[q])
        /\ UNCHANGED <<call, link, at, log, made>>
        BY <1>0, <1>5 DEF HandlerFails, RelayType, Shrunk
  <2>5. RelayType' /\ LinksStay /\ Clean'
        BY <1>1, <1>4, <2>1, <2>2, <2>3, <2>4, StillSent DEF Calm, StillStep
  <2> QED
      BY <1>4, <2>5, CalmStep
<1> QED
    BY <1>6, <1>7
-----------------------------------------------------------------------------
(* DIA starts. *)

\* A goroutine that starts has nothing yet; its relay session is made.
LEMMA OpenedStep ==
    ASSUME Being, NEW p \in Parties, NEW t \in Topics, NEW mode \in {"ake", "rua"},
           NEW requests \in Seq(Requests), Opened(p, t, mode, requests),
           sess[p].pc = "starting", mode = "ake" <=> t = AKETopic,
           p = "caller" => requests \in Seq(CallerRequests(call, sess'["caller"])),
           p = "callee" => requests = <<>>,
           UNCHANGED <<call, sip, feed, strangers>>, ControlType', disturbed \subseteq disturbed'
    PROVE  Being'
<1>0. ControlType /\ SessType /\ RelayType /\ Linked /\ Placed /\ Clean /\ Completed
      BY BeingParts
<1>1. /\ call # 0 /\ link[p] = "off" /\ sess[p].mode = "ake" /\ ~sess[p].complete
      /\ out[p] = <<>> /\ inb[p] = <<>> /\ at[p] = None
      BY <1>0 DEF Linked
<1>2. /\ SessType'
      /\ sess'[p].mode = mode /\ sess'[p].topic = t /\ sess'[p].pc = "idle"
      /\ sess'[p].asked = sess[p].asked /\ sess'[p].complete = sess[p].complete
      /\ \A q \in Parties \ {p} : sess'[q] = sess[q]
      BY <1>0, OpenedSess
<1>3. link' = [link EXCEPT ![p] = "down"] /\ out' = [out EXCEPT ![p] = requests]
      BY DEF Opened
<1>4. RelayType'
      BY <1>0, <1>3 DEF RelayType
<1>5. t # None
      BY Shapes
<1>6. Linked'
  <2>1. \A q \in Parties :
          /\ link'[q] = "off" => out'[q] = <<>> /\ inb'[q] = <<>> /\ at'[q] = None
          /\ link'[q] # "off" => call' # 0 /\ sess'[q].topic # None
          /\ sess'[q].pc = "starting" =>
                call' # 0 /\ link'[q] = "off" /\ sess'[q].mode = "ake" /\ ~sess'[q].complete
    <3> TAKE q \in Parties
    <3>1. CASE q = p
          BY <1>0, <1>1, <1>2, <1>3, <1>5, <3>1 DEF RelayType
    <3>2. CASE q # p
      <4>1. link'[q] = link[q] /\ out'[q] = out[q] /\ sess'[q] = sess[q]
            BY <1>0, <1>2, <1>3, <3>2 DEF RelayType
      <4>2. UNCHANGED <<inb, at, call>>
            OBVIOUS
      <4> QED
          BY <1>0, <4>1, <4>2 DEF Linked
    <3> QED
        BY <3>1, <3>2
  <2>2. sip' = "invited" =>
          call' # 0 /\ link'["callee"] = "off" /\ sess'["callee"].pc # "starting"
        BY <1>0, <1>2, <1>3, Shapes, OtherParty DEF Linked, RelayType
  <2> QED
      BY <2>1, <2>2 DEF Linked
<1>7. Placed'
      BY <1>0, <1>2, <1>5, Shapes, OtherParty DEF Placed
<1>8. Moves
  <2>1. CASE p = "caller"
        BY <1>1, <1>2, <2>1, Shapes DEF Moves, OnRUA
  <2>2. CASE p = "callee"
        BY <1>0, <1>1, <1>2, <2>2, Shapes DEF Moves, OnRUA, Placed
  <2> QED
      BY <2>1, <2>2, OtherParty
<1>9. Clean'
  <2>1. ASSUME "kept" \notin disturbed
        PROVE  CleanOut'
    <3>1. CleanOut
          BY <1>0, <2>1 DEF Clean
    <3>2. out' = [out EXCEPT ![p] = @ \o requests]
          BY <1>1, <1>3
    <3>3. p = "callee" => requests \in Seq(CalleeRequests(call', sess'["callee"]))
          BY EmptySeq
    <3> QED
        BY <1>0, <1>8, <3>1, <3>2, <3>3, SentClean
  <2>2. \A q \in Parties : Shrunk(inb[q], inb'[q])
        BY DEF Shrunk
  <2> QED
      BY <1>0, <1>8, <2>1, <2>2, MovesClean
<1>10. Completed'
  <2>1. CASE p = "caller"
    <3>1. sess'["callee"] = sess["callee"]
          BY <1>2, <2>1, Shapes
    <3>2. sess["callee"].complete => "kept" \in disturbed
          BY <1>0, <1>1, <2>1 DEF Completed, OnRUA
    <3> QED
        BY <1>0, <3>1, <3>2 DEF Completed, Verified
  <2>2. CASE p = "callee"
        BY <1>0, <1>1, <1>2, <2>2 DEF Completed
  <2> QED
      BY <2>1, <2>2, OtherParty
<1> QED
    BY <1>2, <1>4, <1>6, <1>7, <1>9, <1>10 DEF Being, TypeOK, ControlType, SessType

\* A lookup that hits finds a key, and none that fails changes more than the faults.
LEMMA LookupType ==
    ASSUME ControlType, NEW p \in Parties, NEW hit \in BOOLEAN, Lookup(p, hit)
    PROVE  /\ hit => cache[p] \in Keys
           /\ faults' \in 0 .. MaxFaults /\ strangers' = strangers
           /\ disturbed \subseteq disturbed'
           /\ disturbed' \subseteq {"caches", "kept", "fault", "timeout"}
<1>1. cache[p] \in 0 .. OldKeys + MaxCalls
      BY DEF ControlType
<1>2. hit => cache[p] \in Keys
      BY <1>1 DEF Lookup, Cached, Keys
<1>3. CASE UNCHANGED ghost
      BY <1>2, <1>3 DEF ControlType
<1>4. CASE Fault
      BY <1>2, <1>4, FaultType
<1> QED
    BY <1>3, <1>4 DEF Lookup

LEMMA StepCallerStarts == ASSUME Being, CallerStarts PROVE Being'
<1>0. ControlType /\ SessType /\ RelayType /\ Linked
      BY BeingParts
<1>1. call \in 1 .. MaxCalls
      BY <1>0, Shapes DEF CallerStarts, Linked, ControlType
<1>2. /\ Msg("RUARequest", "caller") \in Mine(call, TRUE)
      /\ Msg("AKERequest", "caller") \in Messages
      /\ Msg("AKERequest", "caller").kind # "RUARequest" /\ Msg("AKERequest", "caller").call = call
      BY <1>1, Shapes DEF Mine, Msg, Kinds
<1>3. CASE Lookup("caller", TRUE)
           /\ Opened("caller", CachedRUA(cache["caller"]), "rua",
                     <<Publish(CachedRUA(cache["caller"]), Msg("RUARequest", "caller"))>>)
  <2> DEFINE t == CachedRUA(cache["caller"])
             r == Publish(t, Msg("RUARequest", "caller"))
  <2>1. t \in Topics /\ t # AKETopic
        BY <1>0, <1>3, LookupType, Shapes
  <2>2. ControlType' /\ strangers' = strangers /\ disturbed \subseteq disturbed'
        BY <1>0, <1>3, LookupType, Shapes DEF CallerStarts, ControlType
  <2>3. r \in Requests /\ r.topic = t /\ r.payload = <<Msg("RUARequest", "caller")>>
        BY <1>2, <2>1, Shapes DEF Publish, Mine
  <2> HIDE DEF t, r
  <2>4. Opened("caller", t, "rua", <<r>>)
        BY <1>3 DEF t, r
  <2>5. OnRUA(sess'["caller"], t)
        BY <1>0, <2>1, <2>4, OpenedSess, Shapes DEF OnRUA
  <2>6. r \in CallerRequests(call, sess'["caller"])
    <3>1. Msg("RUARequest", "caller") \in Mine(call, OnRUA(sess'["caller"], t))
          BY <1>2, <2>5 DEF Mine
    <3>2. <<Msg("RUARequest", "caller")>> \in Seq(Mine(call, OnRUA(sess'["caller"], t)))
          BY <3>1
    <3> QED
        BY <2>3, <3>2 DEF CallerRequests
  <2>7. <<r>> \in Seq(Requests) /\ <<r>> \in Seq(CallerRequests(call, sess'["caller"]))
        BY <2>3, <2>6
  <2> QED
      BY <2>1, <2>2, <2>4, <2>7, OpenedStep, Shapes DEF CallerStarts
<1>4. CASE Lookup("caller", FALSE)
           /\ Opened("caller", AKETopic, "ake", <<Publish(AKETopic, Msg("AKERequest", "caller"))>>)
  <2> DEFINE r == Publish(AKETopic, Msg("AKERequest", "caller"))
  <2>1. ControlType' /\ strangers' = strangers /\ disturbed \subseteq disturbed'
        BY <1>0, <1>4, LookupType, Shapes DEF CallerStarts, ControlType
  <2>2. r \in Requests /\ r \in CallerRequests(call, sess'["caller"])
        BY <1>2, PlainRequest, Shapes
  <2> HIDE DEF r
  <2>3. Opened("caller", AKETopic, "ake", <<r>>)
        BY <1>4 DEF r
  <2>4. <<r>> \in Seq(Requests) /\ <<r>> \in Seq(CallerRequests(call, sess'["caller"]))
        BY <2>2
  <2> QED
      BY <2>1, <2>3, <2>4, OpenedStep, Shapes DEF CallerStarts
<1> QED
    BY <1>3, <1>4 DEF CallerStarts

LEMMA StepCalleeStarts == ASSUME Being, CalleeStarts PROVE Being'
<1>0. ControlType
      BY BeingParts
<1>1. <<>> \in Seq(Requests)
      BY EmptySeq
<1>2. CASE Lookup("callee", TRUE) /\ Opened("callee", CachedRUA(cache["callee"]), "rua", <<>>)
  <2>1. CachedRUA(cache["callee"]) \in Topics /\ CachedRUA(cache["callee"]) # AKETopic
        BY <1>0, <1>2, LookupType, Shapes
  <2>2. ControlType' /\ strangers' = strangers /\ disturbed \subseteq disturbed'
        BY <1>0, <1>2, LookupType, Shapes DEF CalleeStarts, ControlType
  <2> QED
      BY <1>1, <1>2, <2>1, <2>2, OpenedStep, Shapes DEF CalleeStarts
<1>3. CASE Lookup("callee", FALSE) /\ Opened("callee", AKETopic, "ake", <<>>)
  <2>1. ControlType' /\ strangers' = strangers /\ disturbed \subseteq disturbed'
        BY <1>0, <1>3, LookupType, Shapes DEF CalleeStarts, ControlType
  <2> QED
      BY <1>1, <1>3, <2>1, OpenedStep, Shapes DEF CalleeStarts
<1> QED
    BY <1>2, <1>3 DEF CalleeStarts, OnCachedTopic

LEMMA StepStartFails == ASSUME Being, NEW p \in Parties, StartFails(p) PROVE Being'
<1>0. ControlType /\ SessType /\ RelayType /\ Linked
      BY BeingParts
<1>1. /\ faults' \in 0 .. MaxFaults /\ strangers' = strangers
      /\ disturbed \subseteq disturbed'
      /\ disturbed' \subseteq {"caches", "kept", "fault", "timeout"}
      BY <1>0, FaultType DEF StartFails
<1>2. CASE p = "callee"
  <2>1. RejectOnError(sess["callee"]) /\ UNCHANGED <<call, cache, net>>
        BY <1>2 DEF StartFails
  <2>2. /\ sip' = "over" /\ events' \in [Parties -> Seq({"established", "closed"})]
        /\ verdicts' \in Seq({"accept", "reject"})
        BY <1>0, <2>1, RejectType DEF RejectOnError
  <2>3. ControlType'
        BY <1>0, <1>1, <2>1, <2>2 DEF ControlType
  <2>4. StillStep
    <3>1. sess["callee"] \in SessionType
          BY <1>0, Shapes DEF SessType
    <3> QED
        BY <1>0, <2>1, <3>1, Shapes, Edits, StillOne DEF RejectOnError
  <2>5. Calm
        BY <1>1, <2>1, <2>2, <2>3, <2>4 DEF Calm
  <2> QED
      BY <1>0, <2>1, <2>5, NetAlone, ShrinkStep
<1>3. CASE p = "caller" /\ Opened(p, AKETopic, "ake", <<>>)
  <2>1. UNCHANGED <<phone, verdicts, call, cache, feed>> /\ sess[p].pc = "starting"
        BY <1>3 DEF StartFails
  <2>2. ControlType'
        BY <1>0, <1>1, <2>1 DEF ControlType
  <2>3. <<>> \in Seq(Requests) /\ <<>> \in Seq(CallerRequests(call, sess'["caller"]))
        BY EmptySeq
  <2> QED
      BY <1>1, <1>3, <2>1, <2>2, <2>3, OpenedStep, Shapes
<1>4. CASE p = "caller" /\ ~Opened(p, AKETopic, "ake", <<>>)
  <2>1. /\ sess' = [sess EXCEPT ![p] = [sess[p] EXCEPT !.pc = "idle"]]
        /\ UNCHANGED <<phone, verdicts, call, cache, net>>
        BY <1>4 DEF StartFails
  <2>2. ControlType'
        BY <1>0, <1>1, <2>1 DEF ControlType
  <2>3. StillStep
    <3>1. sess[p] \in SessionType
          BY <1>0 DEF SessType
    <3> QED
        BY <1>0, <2>1, <3>1, Edits, StillOne
  <2>4. Calm
        BY <1>1, <2>1, <2>2, <2>3 DEF Calm
  <2> QED
      BY <1>0, <2>1, <2>4, NetAlone, ShrinkStep
<1> QED
    BY <1>2, <1>3, <1>4, OtherParty
-----------------------------------------------------------------------------
(* The handlers of the DIA messages. *)

LEMMA HandlerStep ==
    ASSUME Being, NEW p \in Parties, NEW requests \in Seq(Requests),
           inb[p] # <<>>, Consumed(p), Rest,
           out' = [out EXCEPT ![p] = @ \o requests], sip' = sip,
           p = "caller" /\ "kept" \notin disturbed =>
                requests \in Seq(CallerRequests(call', sess'["caller"])),
           p = "callee" /\ "kept" \notin disturbed =>
                requests \in Seq(CalleeRequests(call', sess'["callee"])),
           ControlType', SessType', \A q \in Parties \ {p} : sess'[q] = sess[q],
           sess'[p].topic \in Topics, sess'[p].pc # "starting", Moves, Placed', Completed'
    PROVE  Being'
<1>0. RelayType /\ Linked /\ Placed /\ Clean
      BY BeingParts
<1>1. inb' = [inb EXCEPT ![p] = Tail(@)] /\ UNCHANGED <<call, link, at, log, made, ghost>>
      OBVIOUS
<1>2. Tail(inb[p]) \in Seq(Messages) /\ out[p] \o requests \in Seq(Requests)
      BY <1>0, Shorter, Joined DEF RelayType
<1>3. RelayType'
      BY <1>0, <1>1, <1>2 DEF RelayType
<1>4. Linked'
  <2>1. \A q \in Parties \ {p} : out'[q] = out[q]
        BY <1>0 DEF RelayType
  <2>2. sess'[p].topic # None
        BY Shapes
  <2> QED
      BY <1>0, <1>1, <2>1, <2>2, HandledLinked
<1>5. Clean'
  <2>1. \A q \in Parties : Shrunk(inb[q], inb'[q])
        BY <1>0, <1>1 DEF Shrunk, RelayType
  <2>2. ASSUME "kept" \notin disturbed
        PROVE  CleanOut'
    <3>1. CleanOut
          BY <1>0, <2>2 DEF Clean
    <3> QED
        BY <1>0, <2>2, <3>1, SentClean
  <2> QED
      BY <1>0, <1>1, <2>1, <2>2, MovesClean
<1> QED
    BY <1>3, <1>4, <1>5 DEF Being, TypeOK, ControlType, SessType

\* MsgAKERequest.
LEMMA StepAKEResponds == ASSUME Being, AKEResponds PROVE Being'
<1> DEFINE s == sess["callee"]
           m == Head(inb["callee"])
           n == [m EXCEPT !.kind = "AKEResponse", !.from = "callee"]
           r == Publish(s.topic, n)
           new == [s EXCEPT !.asked = m.call]
<1>0. ControlType /\ SessType /\ RelayType /\ Linked /\ Placed /\ Clean /\ Completed
      BY BeingParts
<1>1. inb["callee"] # <<>> /\ s.pc = "idle"
      BY DEF AKEResponds, Message, HasEvent
<1>2. /\ m \in Messages /\ s.topic \in Topics /\ s \in SessionType
      /\ "kept" \notin disturbed => m.call = call
      BY <1>1, HeadIn, Shapes
<1>3. s.mode = "ake"
  <2>1. m.kind = "AKERequest"
        BY DEF AKEResponds, Message
  <2> QED
      BY <2>1 DEF AKEResponds, Expected
<1>4. n \in Messages /\ n.kind # "RUARequest" /\ n.call = m.call
      BY <1>2, Shapes DEF Messages, Kinds
<1>5. /\ new \in SessionType /\ new.mode = s.mode /\ new.topic = s.topic /\ new.pc = s.pc
      /\ new.complete = s.complete
  <2>1. m.call \in 0 .. MaxCalls
        BY <1>2 DEF Messages
  <2> QED
      BY <1>2, <2>1 DEF SessionType
<1>6. sess' = [sess EXCEPT !["callee"] = new] /\ out' = [out EXCEPT !["callee"] = @ \o <<r>>]
      BY DEF AKEResponds
<1>7. /\ r \in Requests
      /\ "kept" \notin disturbed => r \in CalleeRequests(call, sess'["callee"])
      BY <1>2, <1>4, PlainRequest, Shapes
<1>8. /\ Consumed("callee") /\ Rest /\ sip' = sip /\ ControlType'
      BY <1>0 DEF AKEResponds, ControlType
<1> HIDE DEF new, r, n
<1>9. sess'["callee"] = new /\ \A q \in Parties \ {"callee"} : sess'[q] = sess[q]
      BY <1>0, <1>6, Shapes DEF SessType
<1>10. SessType'
       BY <1>0, <1>5, <1>6 DEF SessType
<1>11. Moves
       BY <1>5, <1>8, <1>9, Shapes DEF Moves
<1>12. Placed'
       BY <1>0, <1>5, <1>9, Shapes DEF Placed
<1>13. Completed'
       BY <1>0, <1>1, <1>3, <1>5, <1>8, <1>9 DEF Completed
<1>14. <<r>> \in Seq(Requests)
       BY <1>7
<1>15. "kept" \notin disturbed => <<r>> \in Seq(CalleeRequests(call', sess'["callee"]))
       BY <1>7, <1>8
<1>16. sess'["callee"].topic \in Topics /\ sess'["callee"].pc # "starting"
       BY <1>1, <1>2, <1>5, <1>9
<1>17. "callee" \in Parties /\ "callee" # "caller"
       BY Shapes
<1> QED
    BY <1>1, <1>6, <1>8, <1>9, <1>10, <1>11, <1>12, <1>13, <1>14, <1>15, <1>16,
       <1>17, HandlerStep

\* MsgAKEResponse: the caller moves to the RUA topic, with its request.
LEMMA StepAKECompletes == ASSUME Being, AKECompletes PROVE Being'
<1> DEFINE s == sess["caller"]
           t == FreshRUA(call)
           c == Publish(s.topic, Msg("AKEComplete", "caller"))
           r == Subscribe(t, <<Msg("RUARequest", "caller")>>)
           new == [s EXCEPT !.mode = "rua", !.state = "other", !.topic = t]
<1>0. ControlType /\ SessType /\ RelayType /\ Linked /\ Placed /\ Clean /\ Completed
      BY BeingParts
<1>1. inb["caller"] # <<>> /\ s.pc = "idle"
      BY DEF AKECompletes, Message, HasEvent
<1>2. /\ call \in 1 .. MaxCalls /\ s.topic \in Topics /\ s \in SessionType
      BY <1>1, HeadIn, Shapes
<1>3. s.mode = "ake"
  <2>1. Head(inb["caller"]).kind = "AKEResponse"
        BY DEF AKECompletes, Message
  <2> QED
      BY <2>1 DEF AKECompletes, Expected
<1>4. t \in Topics /\ t # AKETopic /\ t # None
      BY <1>2, Shapes
<1>5. new \in SessionType /\ new.mode = "rua" /\ new.topic = t /\ new.pc = s.pc
      BY <1>2, <1>4 DEF SessionType
<1>6. sess' = [sess EXCEPT !["caller"] = new] /\ out' = [out EXCEPT !["caller"] = @ \o <<c, r>>]
      BY DEF AKECompletes, CompleteOnOldTopic
<1>7. c \in Requests /\ c \in CallerRequests(call, new)
      BY <1>2, PlainMsg, Shapes DEF CallerRequests, Kinds
<1>8. /\ Msg("RUARequest", "caller") \in Messages
      /\ Msg("RUARequest", "caller").call = call
      BY <1>2, Shapes DEF Kinds, Msg
<1>9. r \in Requests /\ r.topic = t /\ r.payload = <<Msg("RUARequest", "caller")>>
  <2>1. <<Msg("RUARequest", "caller")>> \in Seq(Messages)
        BY <1>8
  <2> QED
      BY <1>4, <2>1, Shapes DEF Subscribe
<1>10. /\ Consumed("caller") /\ Rest /\ sip' = sip /\ ControlType'
       BY <1>0 DEF AKECompletes, ControlType
<1> HIDE DEF new, c, r, t
<1>11. r \in CallerRequests(call, new)
  <2>1. Msg("RUARequest", "caller") \in Mine(call, OnRUA(new, t))
        BY <1>5, <1>8 DEF Mine, OnRUA
  <2>2. <<Msg("RUARequest", "caller")>> \in Seq(Mine(call, OnRUA(new, t)))
        BY <2>1
  <2> QED
      BY <1>9, <2>2 DEF CallerRequests
<1>12. sess'["caller"] = new /\ \A q \in Parties \ {"caller"} : sess'[q] = sess[q]
       BY <1>0, <1>6, Shapes DEF SessType
<1>13. SessType'
       BY <1>0, <1>5, <1>6 DEF SessType
<1>14. Moves
       BY <1>3, <1>10, <1>12, Shapes DEF Moves, OnRUA
<1>15. Placed'
       BY <1>0, <1>4, <1>5, <1>12, Shapes DEF Placed
<1>16. Completed'
  <2>1. sess["callee"].complete => "kept" \in disturbed
        BY <1>0, <1>3 DEF Completed, OnRUA
  <2>2. sess'["callee"] = sess["callee"]
        BY <1>12, Shapes
  <2> QED
      BY <1>0, <1>10, <2>1, <2>2 DEF Completed, Verified
<1>17. <<c, r>> \in Seq(Requests)
       BY <1>7, <1>9
<1>18. <<c, r>> \in Seq(CallerRequests(call', sess'["caller"]))
       BY <1>7, <1>10, <1>11, <1>12
<1>19. sess'["caller"].topic \in Topics /\ sess'["caller"].pc # "starting"
       BY <1>1, <1>4, <1>5, <1>12
<1>20. "caller" \in Parties /\ "callee" # "caller"
       BY Shapes
<1> QED
    BY <1>1, <1>6, <1>10, <1>12, <1>13, <1>14, <1>15, <1>16, <1>17, <1>18,
       <1>19, <1>20, HandlerStep

\* MsgAKEComplete: the callee moves to the RUA topic.
LEMMA StepAKEFinalizes == ASSUME Being, AKEFinalizes PROVE Being'
<1> DEFINE s == sess["callee"]
           t == FreshRUA(Head(inb["callee"]).call)
           r == Subscribe(t, <<>>)
           new == [s EXCEPT !.mode = "rua", !.state = "other", !.topic = t]
<1>0. ControlType /\ SessType /\ RelayType /\ Linked /\ Placed /\ Clean /\ Completed
      BY BeingParts
<1>1. inb["callee"] # <<>> /\ s.pc = "idle"
      BY DEF AKEFinalizes, Message, HasEvent
<1>2. Head(inb["callee"]) \in Messages /\ s \in SessionType
      BY <1>1, HeadIn, Shapes
<1>3. s.mode = "ake"
  <2>1. Head(inb["callee"]).kind = "AKEComplete"
        BY DEF AKEFinalizes, Message
  <2> QED
      BY <2>1 DEF AKEFinalizes, Expected
<1>4. t \in Topics
      BY <1>2, Shapes DEF Messages
<1>5. /\ new \in SessionType /\ new.mode = "rua" /\ new.topic = t /\ new.pc = s.pc
      /\ new.complete = s.complete
      BY <1>2, <1>4 DEF SessionType
<1>6. sess' = [sess EXCEPT !["callee"] = new] /\ out' = [out EXCEPT !["callee"] = @ \o <<r>>]
      BY DEF AKEFinalizes
<1>7. <<>> \in Seq(Messages) /\ <<>> \in Seq(Mine(call, FALSE))
      BY EmptySeq
<1>8. r \in Requests /\ r.topic = t /\ r.payload = <<>>
      BY <1>4, <1>7, Shapes DEF Subscribe
<1>9. /\ Consumed("callee") /\ Rest /\ sip' = sip /\ ControlType'
      BY <1>0 DEF AKEFinalizes, ControlType
<1> HIDE DEF new, r, t
<1>10. r \in CalleeRequests(call, new)
       BY <1>5, <1>7, <1>8 DEF CalleeRequests
<1>11. sess'["callee"] = new /\ \A q \in Parties \ {"callee"} : sess'[q] = sess[q]
       BY <1>0, <1>6, Shapes DEF SessType
<1>12. SessType'
       BY <1>0, <1>5, <1>6 DEF SessType
<1>13. Moves
  <2>1. s.topic \in {None, AKETopic}
        BY <1>0, <1>3 DEF Placed
  <2> QED
      BY <1>9, <1>11, <2>1, Shapes DEF Moves
<1>14. Placed'
       BY <1>0, <1>5, <1>11, Shapes DEF Placed
<1>15. Completed'
       BY <1>0, <1>1, <1>3, <1>5, <1>9, <1>11 DEF Completed
<1>16. <<r>> \in Seq(Requests) /\ <<r>> \in Seq(CalleeRequests(call', sess'["callee"]))
       BY <1>8, <1>9, <1>10, <1>11
<1>17. sess'["callee"].topic \in Topics /\ sess'["callee"].pc # "starting"
       BY <1>1, <1>4, <1>5, <1>11
<1>18. "callee" \in Parties /\ "callee" # "caller"
       BY Shapes
<1> QED
    BY <1>1, <1>6, <1>9, <1>11, <1>12, <1>13, <1>14, <1>15, <1>16, <1>17, <1>18, HandlerStep

\* The cache after DIA.
LEMMA StoreType ==
    ASSUME ControlType, NEW p \in Parties, Store(p)
    PROVE  cache' \in [Parties -> 0 .. OldKeys + MaxCalls]
<1>1. NewKey \in 0 .. OldKeys + MaxCalls
      BY DEF NewKey, ControlType
<1> QED
    BY <1>1 DEF Store, Remember, ControlType

\* MsgRUARequest: DIA is complete at the callee, over a request sent where the caller is.
LEMMA StepRUAResponds == ASSUME Being, RUAResponds PROVE Being'
<1> DEFINE s == sess["callee"]
           m == Head(inb["callee"])
           n == [m EXCEPT !.kind = "RUAResponse", !.from = "callee"]
           r == Publish(s.topic, n)
           new == [s EXCEPT !.mode = "over", !.complete = TRUE, !.state = "complete",
                            !.asked = m.call, !.pc = "gate"]
<1>0. ControlType /\ SessType /\ RelayType /\ Linked /\ Placed /\ Clean /\ Completed
      BY BeingParts
<1>1. inb["callee"] # <<>> /\ m.kind = "RUARequest"
      BY DEF RUAResponds, Message, HasEvent
<1>2. /\ m \in Messages /\ s.topic \in Topics /\ s \in SessionType
      /\ "kept" \notin disturbed => m.call = call /\ OnRUA(sess["caller"], s.topic)
      BY <1>1, HeadIn, Shapes
<1>3. n \in Messages /\ n.kind # "RUARequest" /\ n.call = m.call
      BY <1>2, Shapes DEF Messages, Kinds
<1>4. /\ new \in SessionType /\ new.mode = "over" /\ new.topic = s.topic /\ new.pc = "gate"
      /\ new.complete = TRUE /\ new.asked = m.call
  <2>1. m.call \in 0 .. MaxCalls
        BY <1>2 DEF Messages
  <2> QED
      BY <1>2, <2>1 DEF SessionType
<1>5. sess' = [sess EXCEPT !["callee"] = new] /\ out' = [out EXCEPT !["callee"] = @ \o <<r>>]
      BY DEF RUAResponds
<1>6. /\ r \in Requests
      /\ "kept" \notin disturbed => r \in CalleeRequests(call, sess'["callee"])
      BY <1>2, <1>3, PlainRequest, Shapes
<1>7. Consumed("callee") /\ Rest /\ sip' = sip /\ UNCHANGED <<phone, verdicts>>
      BY DEF RUAResponds
<1>8. ControlType'
  <2>1. cache' \in [Parties -> 0 .. OldKeys + MaxCalls]
        BY <1>0, StoreType, Shapes DEF RUAResponds
  <2> QED
      BY <1>0, <1>7, <2>1 DEF ControlType
<1> HIDE DEF new, r, n
<1>9. sess'["callee"] = new /\ \A q \in Parties \ {"callee"} : sess'[q] = sess[q]
      BY <1>0, <1>5, Shapes DEF SessType
<1>10. SessType'
       BY <1>0, <1>4, <1>5 DEF SessType
<1>11. Moves
       BY <1>4, <1>7, <1>9, Shapes DEF Moves
<1>12. Placed'
       BY <1>0, <1>4, <1>9, Shapes DEF Placed
<1>13. Completed'
  <2>1. sess'["caller"] = sess["caller"]
        BY <1>9, Shapes
  <2> QED
      BY <1>0, <1>2, <1>4, <1>7, <1>9, <2>1 DEF Completed, Verified
<1>14. <<r>> \in Seq(Requests)
       BY <1>6
<1>15. "kept" \notin disturbed => <<r>> \in Seq(CalleeRequests(call', sess'["callee"]))
       BY <1>6, <1>7
<1>16. sess'["callee"].topic \in Topics /\ sess'["callee"].pc # "starting"
       BY <1>2, <1>4, <1>9
<1>17. "callee" \in Parties /\ "callee" # "caller"
       BY Shapes
<1> QED
    BY <1>1, <1>5, <1>7, <1>8, <1>9, <1>10, <1>11, <1>12, <1>13, <1>14, <1>15, <1>16,
       <1>17, HandlerStep

\* MsgRUAResponse.
LEMMA StepRUAFinalizes == ASSUME Being, RUAFinalizes PROVE Being'
<1> DEFINE s == sess["caller"]
           new == [s EXCEPT !.mode = "over", !.complete = TRUE, !.state = "complete"]
<1>0. ControlType /\ SessType /\ RelayType /\ Linked /\ Placed /\ Clean /\ Completed
      BY BeingParts
<1>1. inb["caller"] # <<>> /\ s.pc = "idle"
      BY DEF RUAFinalizes, Message, HasEvent
<1>2. s.topic \in Topics /\ s \in SessionType
      BY <1>1, HeadIn, Shapes
<1>3. s.mode = "rua"
  <2>1. Head(inb["caller"]).kind = "RUAResponse"
        BY DEF RUAFinalizes, Message
  <2> QED
      BY <2>1 DEF RUAFinalizes, Expected
<1>4. new \in SessionType /\ new.mode = "over" /\ new.topic = s.topic /\ new.pc = s.pc
      BY <1>2 DEF SessionType
<1>5. sess' = [sess EXCEPT !["caller"] = new]
      BY DEF RUAFinalizes
<1>6. Consumed("caller") /\ Rest /\ sip' = sip /\ UNCHANGED <<phone, verdicts, out>>
      BY DEF RUAFinalizes
<1>7. ControlType'
  <2>1. cache' \in [Parties -> 0 .. OldKeys + MaxCalls]
        BY <1>0, StoreType, Shapes DEF RUAFinalizes
  <2> QED
      BY <1>0, <1>6, <2>1 DEF ControlType
<1> HIDE DEF new
<1>8. sess'["caller"] = new /\ \A q \in Parties \ {"caller"} : sess'[q] = sess[q]
      BY <1>0, <1>5, Shapes DEF SessType
<1>9. SessType'
      BY <1>0, <1>4, <1>5 DEF SessType
<1>10. Moves
       BY <1>3, <1>4, <1>6, <1>8, Shapes DEF Moves, OnRUA
<1>11. Placed'
       BY <1>0, <1>3, <1>4, <1>8, Shapes DEF Placed
<1>12. Completed'
  <2>1. sess'["callee"] = sess["callee"]
        BY <1>8, Shapes
  <2>2. \A t : OnRUA(sess["caller"], t) => OnRUA(sess'["caller"], t)
        BY <1>10 DEF Moves
  <2> QED
      BY <1>0, <1>6, <2>1, <2>2 DEF Completed, Verified
<1>13. <<>> \in Seq(Requests) /\ \A S : <<>> \in Seq(S)
       BY EmptySeq
<1>14. out' = [out EXCEPT !["caller"] = @ \o <<>>]
  <2>1. out["caller"] \o <<>> = out["caller"]
        BY <1>0, ConcatEmptySeq, Shapes DEF RelayType
  <2> QED
      BY <1>0, <1>6, <2>1 DEF RelayType
<1>15. sess'["caller"].topic \in Topics /\ sess'["caller"].pc # "starting"
       BY <1>1, <1>2, <1>4, <1>8
<1>16. "caller" \in Parties /\ "callee" # "caller"
       BY Shapes
<1> QED
    BY <1>1, <1>6, <1>7, <1>8, <1>9, <1>10, <1>11, <1>12, <1>13, <1>14, <1>15, <1>16, HandlerStep
-----------------------------------------------------------------------------
(* A call is dialled, and arrives. *)

LEMMA NoSessionFields ==
    /\ NoSession \in SessionType /\ NoSession.mode = "ake" /\ NoSession.topic = None
    /\ NoSession.pc = "off" /\ NoSession.complete = FALSE
BY Shapes DEF NoSession

LEMMA StepDial == ASSUME Being, Dial PROVE Being'
<1> DEFINE new == [NoSession EXCEPT !.pc = "starting", !.reg = "yes"]
<1>0. ControlType /\ SessType /\ RelayType /\ Linked
      BY BeingParts
<1>1. new \in SessionType /\ new.mode = "ake" /\ new.pc = "starting" /\ new.complete = FALSE
      BY NoSessionFields DEF NoSession, SessionType
<1>2. sess' = [p \in Parties |-> IF p = "caller" THEN new ELSE NoSession]
      BY DEF Dial
<1> HIDE DEF new
<1>3. sess'["caller"] = new /\ sess'["callee"] = NoSession /\ SessType'
      BY <1>1, <1>2, NoSessionFields, Shapes DEF SessType
<1>4. ControlType'
      BY <1>0 DEF Dial, ControlType, Inherited
<1>5. \A p \in Parties : link[p] = "off" /\ out[p] = <<>> /\ inb[p] = <<>> /\ at[p] = None
      BY <1>0 DEF Dial, Quiet, Linked
<1>6. UNCHANGED net /\ sip' = "invited" /\ call' = call + 1
      BY DEF Dial
<1>7. RelayType'
      BY <1>0, <1>6 DEF RelayType, net
<1>8. Linked'
  <2>1. call' # 0
        BY <1>0, <1>6 DEF ControlType
  <2> QED
      BY <1>1, <1>3, <1>5, <1>6, <2>1, NoSessionFields, OtherParty, Shapes DEF Linked, net
<1>9. Placed'
      BY <1>1, <1>3, NoSessionFields DEF Placed
<1>10. Clean'
  <2> SUFFICES ASSUME "kept" \notin disturbed'
               PROVE  CleanLog' /\ CleanOut' /\ CleanInb' /\ CleanPlace'
      BY DEF Clean
  <2>1. \A t \in Topics : log[t] = <<>>
        BY DEF Dial, Inherited
  <2> QED
      BY <1>5, <1>6, <2>1, EmptySeq, Shapes DEF CleanLog, CleanOut, CleanInb, CleanPlace, net
<1>11. Completed'
       BY <1>3, <1>6, NoSessionFields DEF Completed
<1> QED
    BY <1>3, <1>4, <1>7, <1>8, <1>9, <1>10, <1>11 DEF Being, TypeOK, ControlType, SessType

LEMMA StepIncoming == ASSUME Being, HandleIncomingCall PROVE Being'
<1> DEFINE new == [NoSession EXCEPT !.pc = "starting", !.reg = "yes", !.timer = DIATimeout]
<1>0. ControlType /\ SessType /\ RelayType /\ Linked /\ Placed /\ Clean /\ Completed
      BY BeingParts
<1>1. /\ new \in SessionType /\ new.mode = "ake" /\ new.topic = None /\ new.pc = "starting"
      /\ new.complete = FALSE
      BY NoSessionFields DEF NoSession, SessionType, DIATimeout
<1>2. sess' = [sess EXCEPT !["callee"] = new]
      BY DEF HandleIncomingCall
<1> HIDE DEF new
<1>3. sess'["callee"] = new /\ sess'["caller"] = sess["caller"] /\ SessType'
      BY <1>0, <1>1, <1>2, Shapes DEF SessType
<1>4. ControlType'
      BY <1>0 DEF HandleIncomingCall, ControlType
<1>5. UNCHANGED net /\ sip' = "ringing" /\ sip = "invited" /\ UNCHANGED <<call, ghost>>
      BY DEF HandleIncomingCall
<1>6. /\ link["callee"] = "off" /\ out["callee"] = <<>> /\ inb["callee"] = <<>>
      /\ at["callee"] = None /\ call # 0
      BY <1>0, <1>5, Shapes DEF Linked
<1>7. RelayType'
      BY <1>0, <1>5 DEF RelayType, net
<1>8. Linked'
  <2>1. \A q \in Parties :
          /\ link'[q] = "off" => out'[q] = <<>> /\ inb'[q] = <<>> /\ at'[q] = None
          /\ link'[q] # "off" => call' # 0 /\ sess'[q].topic # None
          /\ sess'[q].pc = "starting" =>
                call' # 0 /\ link'[q] = "off" /\ sess'[q].mode = "ake" /\ ~sess'[q].complete
    <3> TAKE q \in Parties
    <3>1. CASE q = "caller"
          BY <1>0, <1>3, <1>5, <3>1 DEF Linked, net
    <3>2. CASE q = "callee"
          BY <1>1, <1>3, <1>5, <1>6, <3>2 DEF net
    <3> QED
        BY <3>1, <3>2, OtherParty
  <2> QED
      BY <1>5, <2>1 DEF Linked
<1>9. Placed'
      BY <1>0, <1>1, <1>3 DEF Placed
<1>10. Clean'
  <2> SUFFICES ASSUME "kept" \notin disturbed
               PROVE  CleanLog' /\ CleanOut' /\ CleanInb' /\ CleanPlace'
      BY <1>5 DEF Clean
  <2>1. CleanLog /\ CleanOut /\ CleanInb
        BY <1>0 DEF Clean
  <2>2. CleanLog'
        BY <1>3, <1>5, <2>1 DEF CleanLog, net
  <2>3. CleanOut'
        BY <1>3, <1>5, <1>6, <2>1, EmptySeq DEF CleanOut, net
  <2>4. CleanInb'
        BY <1>3, <1>5, <1>6, <2>1, EmptySeq DEF CleanInb, net
  <2>5. CleanPlace'
        BY <1>5, <1>6 DEF CleanPlace, net
  <2> QED
      BY <2>2, <2>3, <2>4, <2>5
<1>11. Completed'
       BY <1>1, <1>3, <1>5 DEF Completed
<1> QED
    BY <1>3, <1>4, <1>7, <1>8, <1>9, <1>10, <1>11 DEF Being, TypeOK, ControlType, SessType
-----------------------------------------------------------------------------
(* The invariant, and the theorems. *)

LEMMA BeingInit == Init => Being
<1> SUFFICES ASSUME Init PROVE Being
    OBVIOUS
<1>1. TypeOK
      BY TypeInit
<1>2. Linked /\ Placed /\ Completed
      BY NoSessionFields, Shapes DEF Init, Linked, Placed, Completed
<1>3. Clean
      BY EmptySeq, Shapes DEF Init, Clean, CleanLog, CleanOut, CleanInb, CleanPlace
<1> QED
    BY <1>1, <1>2, <1>3 DEF Being

LEMMA BeingNext == Being /\ [Next]_vars => Being'
<1> SUFFICES ASSUME Being, [Next]_vars PROVE Being'
    OBVIOUS
<1>1. CASE Dial \/ HandleIncomingCall \/ UserHangsUp \/ TimerRejects
      BY <1>1, StepDial, StepIncoming, StepHangsUp, StepTimer
<1>2. CASE Caller
      BY <1>2, StepCallerStarts, StepAKECompletes, StepRUAFinalizes DEF Caller
<1>3. CASE Callee
      BY <1>3, StepCalleeStarts, StepAKEResponds, StepAKEFinalizes, StepRUAResponds,
         StepDuplicate, StepGate, StepEndReject DEF Callee
<1>4. ASSUME NEW p \in Parties, RelayTakes(p) \/ Connect(p) \/ Break(p) \/ Lose(p)
      PROVE  Being'
      BY <1>4, StepRelayTakes, StepConnect, StepBreak, StepLose
<1>5. ASSUME NEW p \in Parties, Callback(p) \/ EventLoop(p) \/ StartFails(p) \/ Forget(p)
      PROVE  Being'
      BY <1>5, StepDrop, StepFails, StepEstablished, StepClosed, StepEndClosed, StepStartFails,
         StepForget DEF Callback, EventLoop
<1>6. CASE UNCHANGED vars
  <2>1. Calm
        BY <1>6, CalmNothing, BeingParts DEF ControlType
  <2> QED
      BY <1>6, <2>1, NetAlone, ShrinkStep, BeingParts
<1> QED
    BY <1>1, <1>2, <1>3, <1>4, <1>5, <1>6 DEF Next

THEOREM BeingAlways == Spec => []Being
<1>1. Init => Being
      BY BeingInit
<1>2. Being /\ [Next]_vars => Being'
      BY BeingNext
<1> QED
    BY <1>1, <1>2, PTL DEF Spec

\* Types are kept: in particular no handler builds a message outside a call, and no
\* request goes to a topic that is none.
THEOREM DiaTypes == Spec => []TypeOK
<1>1. Being => TypeOK
      BY DEF Being
<1> QED
    BY <1>1, BeingAlways, PTL

\* The gate of runIncomingDIA and MsgRUARequest, for any number of calls, faults and
\* cached sessions: a call is up only after DIA completed with a caller whose credentials
\* verify, and, when the relay has kept nothing of an earlier call, over this call's own
\* request, on the topic the caller is on too.
THEOREM GateIsHeld == Spec => []GateHolds
<1>1. Being => GateHolds
      BY DEF Being, Completed, GateHolds, OnRUA
<1> QED
    BY <1>1, BeingAlways, PTL
-----------------------------------------------------------------------------
(* The exchange that nothing disturbs does not come to a halt.               *)
(*                                                                          *)
(* NeverStuck says nothing of the states on the way, so its invariant has to *)
(* name them.  Course is the way of an undisturbed exchange, stage by stage, *)
(* from the request of the caller to the verdict of both, each with what is  *)
(* queued, on its way, and kept; Calls is what the rest of the call may do   *)
(* meanwhile.  In the last stage alone is there nothing left to do.          *)

\* The DIA goroutine of p has not made its relay session, or it has.
Early(p) == sess[p].pc \in {"off", "starting"}
Works(p) == sess[p].pc \in {"idle", "gate"}

\* What p has to send, and what is on its way to it.
Holds(p, requests, messages) == out[p] = requests /\ inb[p] = messages

\* p has no relay session; has one that is not connected; has one whose stream is up, in
\* protocol state mode, itself on topic t and the relay's end of it on u.
Absent(p) == Early(p) /\ link[p] = "off" /\ at[p] = None /\ Holds(p, <<>>, <<>>)
Waits(p, mode, t) ==
    Works(p) /\ sess[p].mode = mode /\ sess[p].topic = t /\ link[p] = "down" /\ at[p] = None
Stands(p, mode, t, u) ==
    Works(p) /\ sess[p].mode = mode /\ sess[p].topic = t /\ link[p] = "up" /\ at[p] = u

\* What a party with key k in its cache opens with: the topic, the protocol state, the
\* caller's request.
FirstTopic(k) == IF k = 0 THEN AKETopic ELSE CachedRUA(k)
FirstMode(k)  == IF k = 0 THEN "ake" ELSE "rua"
FirstKind(k)  == IF k = 0 THEN "AKERequest" ELSE "RUARequest"

\* The request m is not sent before the stream is up, and is there for a callee that
\* comes later.
CallerOpens(t, mode, m) ==
    \/ Absent("caller") /\ log[t] = <<>>
    \/ /\ Waits("caller", mode, t) \/ Stands("caller", mode, t, t)
       /\ Holds("caller", <<Publish(t, m)>>, <<>>) /\ log[t] = <<>>
    \/ Stands("caller", mode, t, t) /\ Holds("caller", <<>>, <<>>) /\ log[t] = <<m>>
CalleeOpens(t, mode) ==
    \/ Absent("callee")
    \/ Waits("callee", mode, t) /\ Holds("callee", <<>>, <<>>)
    \/ Stands("callee", mode, t, t) /\ Holds("callee", <<>>, log[t])
Opening(k, m) ==
    /\ cache["caller"] = k /\ cache["callee"] = k
    /\ CallerOpens(FirstTopic(k), FirstMode(k), m) /\ CalleeOpens(FirstTopic(k), FirstMode(k))

\* The AKE response m, queued or on its way.
Answering(m) ==
    /\ Stands("caller", "ake", AKETopic, AKETopic) /\ Stands("callee", "ake", AKETopic, AKETopic)
    /\ \/ Holds("callee", <<Publish(AKETopic, m)>>, <<>>) /\ Holds("caller", <<>>, <<>>)
       \/ Holds("callee", <<>>, <<>>) /\ Holds("caller", <<>>, <<m>>)

\* AKE complete, m, before the caller's subscription to the RUA topic r with the request n.
Completing(r, m, n) ==
    /\ Stands("caller", "rua", r, AKETopic) /\ Stands("callee", "ake", AKETopic, AKETopic)
    /\ Holds("caller", <<Publish(AKETopic, m), Subscribe(r, <<n>>)>>, <<>>)
    /\ Holds("callee", <<>>, <<>>)

\* Both move to r, whoever is the first.
CallerMoves(r, n) ==
    \/ Stands("caller", "rua", r, AKETopic) /\ Holds("caller", <<Subscribe(r, <<n>>)>>, <<>>)
       /\ log[r] = <<>>
    \/ Stands("caller", "rua", r, r) /\ Holds("caller", <<>>, <<>>) /\ log[r] = <<n>>
CalleeMoves(r, m) ==
    \/ Stands("callee", "ake", AKETopic, AKETopic) /\ Holds("callee", <<>>, <<m>>)
    \/ Stands("callee", "rua", r, AKETopic) /\ Holds("callee", <<Subscribe(r, <<>>)>>, <<>>)
    \/ Stands("callee", "rua", r, r) /\ Holds("callee", <<>>, log[r])

\* The RUA response m, queued, on its way, and taken.
CallerEnds(t, m) ==
    \/ /\ Stands("caller", "rua", t, t)
       /\ \/ Holds("caller", <<>>, <<>>) /\ Holds("callee", <<Publish(t, m)>>, <<>>)
          \/ Holds("caller", <<>>, <<m>>) /\ Holds("callee", <<>>, <<>>)
    \/ /\ Stands("caller", "over", t, t) /\ sess["caller"].complete
       /\ Holds("caller", <<>>, <<>>) /\ Holds("callee", <<>>, <<>>)
       /\ Verified("caller") => cache["caller"] = NewKey
Ending(t, m) ==
    /\ Stands("callee", "over", t, t) /\ sess["callee"].complete
    /\ Verified("callee") => cache["callee"] = NewKey
    /\ CallerEnds(t, m)

\* The stages.  Until the AKE is complete the RUA topic of the call is empty.
Opens == /\ log[FreshRUA(call)] = <<>>
         /\ \E k \in 0 .. OldKeys + MaxCalls : Opening(k, Msg(FirstKind(k), "caller"))
Agrees == /\ log[FreshRUA(call)] = <<>> /\ sess["callee"].asked = call
          /\ \/ Answering(Msg("AKEResponse", "callee"))
             \/ Completing(FreshRUA(call), Msg("AKEComplete", "caller"),
                                           Msg("RUARequest", "caller"))
Departs == /\ sess["callee"].asked = call
          /\ CallerMoves(FreshRUA(call), Msg("RUARequest", "caller"))
          /\ CalleeMoves(FreshRUA(call), Msg("AKEComplete", "caller"))
Ends == \E t \in Topics : Ending(t, Msg("RUAResponse", "callee"))
Course == Opens \/ Agrees \/ Departs \/ Ends

\* The call: established is all that happens to it, and the gate comes after DIA.
Calls ==
    /\ call # 0
    /\ sess["caller"].pc \in {"starting", "idle"}
    /\ sess["callee"].pc \in {"off", "starting", "idle", "gate"}
    /\ sess["callee"].pc = "off" <=> sip = "invited"
    /\ \A p \in Parties : /\ sess[p].reg # "ending" /\ sess[p].state # "closed"
                          /\ events[p] \in Seq({"established"})
    /\ sess["callee"].complete => \/ sess["callee"].pc = "gate" /\ sip = "ringing"
                                  \/ sess["callee"].pc = "idle" /\ sip = "up"
    /\ ~sess["callee"].complete =>
            sess["callee"].pc # "gate" /\ sip # "up" /\ sess["callee"].state # "complete"

Going == disturbed = {} /\ sip \in {"invited", "ringing", "up"}
OnCourse == Going => Calls /\ Course
-----------------------------------------------------------------------------
(* Queues of one or two, and what a subscriber is shown of a topic. *)

LEMMA Queues ==
    /\ \A x : <<x>> # <<>> /\ Head(<<x>>) = x /\ Tail(<<x>>) = <<>>
    /\ \A x, y : <<x, y>> # <<>> /\ Head(<<x, y>>) = x /\ Tail(<<x, y>>) = <<y>>
    /\ \A x, y : <<x>> = <<y>> => x = y
OBVIOUS

LEMMA Joins ==
    /\ <<>> \o <<>> = <<>>
    /\ \A x : <<>> \o <<x>> = <<x>> /\ <<x>> \o <<>> = <<x>>
    /\ \A x, y : <<>> \o <<x, y>> = <<x, y>>
OBVIOUS

\* Of an empty topic, nothing.
LEMMA ReplayNothing ==
    ASSUME NEW p, NEW t, log[t] = <<>>
    PROVE  Replay(p, t) = <<>>
<1>1. Shown(p, t) = {}
      BY DEF Shown
<1>2. Cardinality(Shown(p, t)) = 0
      BY <1>1, FS_EmptySet
<1>3. Replay(p, t) = [n \in 1 .. 0 |-> log[t][Nth(Shown(p, t), n)]]
      BY <1>2 DEF Replay
<1> QED
    BY <1>3

\* Of one message that is the other party's, all.
LEMMA ReplayOne ==
    ASSUME NEW p, NEW t, NEW m, log[t] = <<m>>, m.from # p
    PROVE  Replay(p, t) = <<m>>
<1>1. DOMAIN log[t] = {1} /\ log[t][1] = m
      OBVIOUS
<1>2. Shown(p, t) = {1}
      BY <1>1 DEF Shown
<1>3. Cardinality({1}) = 1
      BY FS_Singleton
<1>4. Nth({1}, 1) = 1
  <2>1. {j \in {1} : j <= 1} = {1}
        OBVIOUS
  <2>2. \E i \in {1} : Cardinality({j \in {1} : j <= i}) = 1
        BY <1>3, <2>1
  <2> QED
      BY <2>2 DEF Nth
<1>5. Replay(p, t) = [n \in 1 .. 1 |-> log[t][Nth({1}, n)]]
      BY <1>2, <1>3 DEF Replay
<1>6. Replay(p, t) = [n \in 1 .. 1 |-> m]
  <2>1. \A n \in 1 .. 1 : log[t][Nth({1}, n)] = m
        BY <1>1, <1>4
  <2> QED
      BY <1>5, <2>1
<1> QED
    BY <1>6
-----------------------------------------------------------------------------
(* What a step of the relay does, party by party. *)

\* p publishes m, on a topic that its stream is on, or subscribes.
LEMMA Sends ==
    ASSUME TypeOK, NEW p \in Parties, RelayTakes(p), NEW t \in Topics, NEW m \in Messages,
           Head(out[p]) = Publish(t, m), at[p] = t
    PROVE  /\ out'[p] = Tail(out[p]) /\ out'[Other(p)] = out[Other(p)]
           /\ at'[p] = at[p] /\ at'[Other(p)] = at[Other(p)]
           /\ inb'[p] = inb[p]
           /\ inb'[Other(p)] = IF at[Other(p)] = t THEN inb[Other(p)] \o <<m>> ELSE inb[Other(p)]
           /\ log'[t] = IF m.kind \in {"AKEComplete", "Bye"} THEN <<>> ELSE log[t] \o <<m>>
           /\ \A u \in Topics \ {t} : log'[u] = log[u]
<1>0. RelayType
      BY TypeParts
<1>1. Publish(t, m).op = "publish" /\ Publish(t, m).topic = t /\ Publish(t, m).payload = <<m>>
      BY DEF Publish
<1>2. Exists(t)
      BY DEF Exists
<1>3. out' = [out EXCEPT ![p] = Tail(@)] /\ at' = at /\ Published(p, t, <<m>>, inb)
      BY <1>1, <1>2 DEF RelayTakes
<1>4. <<m>> # <<>> /\ <<m>>[1] = m /\ <<m>> \in Seq(Messages)
      OBVIOUS
<1>5. /\ inb'[p] = inb[p]
      /\ inb'[Other(p)] = IF at[Other(p)] = t THEN inb[Other(p)] \o <<m>> ELSE inb[Other(p)]
  <2>1. inb \in [Parties -> Seq(Messages)]
        BY <1>0 DEF RelayType
  <2> DEFINE shown == inb
             s == <<m>>
  <2>2. s \in Seq(Messages) /\ Published(p, t, s, shown) /\ shown \in [Parties -> Seq(Messages)]
        BY <1>3, <1>4, <2>1
  <2> HIDE DEF s
  <2>3. /\ inb'[p] = shown[p]
        /\ inb'[Other(p)] = IF at[Other(p)] = t THEN shown[Other(p)] \o s ELSE shown[Other(p)]
        BY <1>0, <2>2, PublishedType
  <2> QED
      BY <2>3 DEF s
<1>6. /\ log'[t] = IF m.kind \in {"AKEComplete", "Bye"} THEN <<>> ELSE log[t] \o <<m>>
      /\ \A u \in Topics \ {t} : log'[u] = log[u]
      BY <1>0, <1>3, <1>4 DEF Published, RelayType
<1>7. out'[p] = Tail(out[p]) /\ out'[Other(p)] = out[Other(p)]
  <2>1. Other(p) \in Parties /\ Other(p) # p
        BY OtherParty, Shapes
  <2> QED
      BY <1>0, <1>3, <2>1 DEF RelayType
<1> QED
    BY <1>3, <1>5, <1>6, <1>7

\* The same, with a name.
Sent(p, q, t, m) ==
    /\ out'[p] = Tail(out[p]) /\ out'[q] = out[q]
    /\ at'[p] = at[p] /\ at'[q] = at[q]
    /\ inb'[p] = inb[p] /\ inb'[q] = IF at[q] = t THEN inb[q] \o <<m>> ELSE inb[q]
    /\ log'[t] = IF m.kind \in {"AKEComplete", "Bye"} THEN <<>> ELSE log[t] \o <<m>>
    /\ \A u \in Topics \ {t} : log'[u] = log[u]

LEMMA SendsTo ==
    ASSUME TypeOK, NEW p \in Parties, NEW q \in Parties, q = Other(p), RelayTakes(p),
           NEW t \in Topics, NEW m \in Messages, Head(out[p]) = Publish(t, m), at[p] = t
    PROVE  Sent(p, q, t, m)
BY Sends DEF Sent

LEMMA Subscribes ==
    ASSUME TypeOK, NEW p \in Parties, RelayTakes(p), NEW t \in Topics, NEW s \in Seq(Messages),
           out[p] = <<Subscribe(t, s)>>, s # <<>> => s[1].kind \notin {"AKEComplete", "Bye"}
    PROVE  /\ out'[p] = <<>> /\ out'[Other(p)] = out[Other(p)]
           /\ at'[p] = t /\ at'[Other(p)] = at[Other(p)]
           /\ inb'[p] = inb[p] \o Replay(p, t)
           /\ inb'[Other(p)] = IF at[Other(p)] = t THEN inb[Other(p)] \o s ELSE inb[Other(p)]
           /\ log'[t] = log[t] \o s
           /\ \A u \in Topics \ {t} : log'[u] = log[u]
<1>0. RelayType
      BY TypeParts
<1>1. Head(out[p]) = Subscribe(t, s) /\ Tail(out[p]) = <<>>
      BY Queues
<1>2. Subscribe(t, s).op = "subscribe" /\ Subscribe(t, s).topic = t /\ Subscribe(t, s).payload = s
      BY DEF Subscribe
<1> DEFINE shown == [inb EXCEPT ![p] = @ \o Replay(p, t)]
<1>3. /\ out' = [out EXCEPT ![p] = <<>>] /\ at' = [at EXCEPT ![p] = t]
      /\ Published(p, t, s, shown)
      BY <1>0, <1>1, <1>2 DEF RelayTakes, RelayType
<1>4. Replay(p, t) \in Seq(Messages) /\ inb[p] \in Seq(Messages)
      BY <1>0, ReplayKept DEF RelayType
<1>5. inb[p] \o Replay(p, t) \in Seq(Messages)
      BY <1>4, Joined
<1>6. shown \in [Parties -> Seq(Messages)] /\ shown[p] = inb[p] \o Replay(p, t)
      BY <1>0, <1>5 DEF RelayType
<1>7. shown[Other(p)] = inb[Other(p)]
  <2>1. Other(p) \in Parties /\ Other(p) # p
        BY OtherParty, Shapes
  <2> QED
      BY <1>0, <2>1 DEF RelayType
<1>8. /\ inb'[p] = shown[p]
      /\ inb'[Other(p)] = IF at[Other(p)] = t THEN shown[Other(p)] \o s ELSE shown[Other(p)]
  <2> HIDE DEF shown
  <2> QED
      BY SMTT(30), <1>0, <1>3, <1>6, PublishedType
<1>9. /\ log'[t] = log[t] \o s
      /\ \A u \in Topics \ {t} : log'[u] = log[u]
      BY <1>0, <1>3 DEF Published, RelayType
<1>10. /\ out'[p] = <<>> /\ out'[Other(p)] = out[Other(p)]
       /\ at'[p] = t /\ at'[Other(p)] = at[Other(p)]
  <2>1. Other(p) \in Parties /\ Other(p) # p
        BY OtherParty, Shapes
  <2> QED
      BY <1>0, <1>3, <2>1 DEF RelayType
<1> QED
    BY <1>6, <1>7, <1>8, <1>9, <1>10

Subscribed(p, q, t, s) ==
    /\ out'[p] = <<>> /\ out'[q] = out[q]
    /\ at'[p] = t /\ at'[q] = at[q]
    /\ inb'[p] = inb[p] \o Replay(p, t)
    /\ inb'[q] = IF at[q] = t THEN inb[q] \o s ELSE inb[q]
    /\ log'[t] = log[t] \o s
    /\ \A u \in Topics \ {t} : log'[u] = log[u]

LEMMA SubscribesTo ==
    ASSUME TypeOK, NEW p \in Parties, NEW q \in Parties, q = Other(p), RelayTakes(p),
           NEW t \in Topics, NEW s \in Seq(Messages), out[p] = <<Subscribe(t, s)>>,
           s # <<>> => s[1].kind \notin {"AKEComplete", "Bye"}
    PROVE  Subscribed(p, q, t, s)
BY Subscribes DEF Subscribed
-----------------------------------------------------------------------------
(* Steps that leave the exchange where it is. *)

\* A party's DIA and its relay session are as they were.
StaysPut(p) ==
    /\ out'[p] = out[p] /\ inb'[p] = inb[p] /\ link'[p] = link[p] /\ at'[p] = at[p]
    /\ sess'[p].mode = sess[p].mode /\ sess'[p].topic = sess[p].topic
    /\ (sess'[p].complete <=> sess[p].complete)
    /\ (Early(p) => Early(p)') /\ (Works(p) => Works(p)')

LEMMA Places ==
    ASSUME NEW p, StaysPut(p)
    PROVE  /\ \A o, i : Holds(p, o, i) => Holds(p, o, i)'
           /\ Absent(p) => Absent(p)'
           /\ \A mode, t : Waits(p, mode, t) => Waits(p, mode, t)'
           /\ \A mode, t, u : Stands(p, mode, t, u) => Stands(p, mode, t, u)'
BY DEF StaysPut, Holds, Absent, Waits, Stands

\* The messages and topics of this call stay its own.
LEMMA SameCall ==
    ASSUME call' = call
    PROVE  /\ \A k, p : Msg(k, p)' = Msg(k, p)
           /\ FreshRUA(call)' = FreshRUA(call) /\ NewKey' = NewKey
BY DEF Msg, FreshRUA, NewKey

\* The stages, for messages and topics that do not change.
LEMMA StageStays ==
    ASSUME \A p \in Parties : StaysPut(p), log' = log, cache' = cache, strangers' = strangers,
           call' = call
    PROVE  /\ \A k, m : Opening(k, m) => Opening(k, m)'
           /\ \A m : Answering(m) => Answering(m)'
           /\ \A r, m, n : Completing(r, m, n) => Completing(r, m, n)'
           /\ \A r, n : CallerMoves(r, n) => CallerMoves(r, n)'
           /\ \A r, m : CalleeMoves(r, m) => CalleeMoves(r, m)'
           /\ \A t, m : Ending(t, m) => Ending(t, m)'
<1>1. StaysPut("caller") /\ StaysPut("callee")
      BY Shapes
<1>2. /\ \A p \in Parties : \A o, i : Holds(p, o, i) => Holds(p, o, i)'
      /\ \A p \in Parties : Absent(p) => Absent(p)'
      /\ \A p \in Parties : \A mode, t : Waits(p, mode, t) => Waits(p, mode, t)'
      /\ \A p \in Parties : \A mode, t, u : Stands(p, mode, t, u) => Stands(p, mode, t, u)'
      BY Places
<1>3. /\ \A t, mode, m : CallerOpens(t, mode, m) => CallerOpens(t, mode, m)'
      /\ \A t, mode : CalleeOpens(t, mode) => CalleeOpens(t, mode)'
      BY <1>2, Shapes DEF CallerOpens, CalleeOpens
<1>4. \A k, m : Opening(k, m) => Opening(k, m)'
      BY <1>3 DEF Opening
<1>5. /\ \A m : Answering(m) => Answering(m)'
      /\ \A r, m, n : Completing(r, m, n) => Completing(r, m, n)'
      BY <1>2, Shapes DEF Answering, Completing
<1>6. /\ \A r, n : CallerMoves(r, n) => CallerMoves(r, n)'
      /\ \A r, m : CalleeMoves(r, m) => CalleeMoves(r, m)'
      BY <1>2, Shapes DEF CallerMoves, CalleeMoves
<1>7. Verified("caller")' = Verified("caller") /\ Verified("callee")' = Verified("callee")
      BY DEF Verified
<1>8. \A p \in Parties : sess'[p].complete <=> sess[p].complete
      BY DEF StaysPut
<1>9. NewKey' = NewKey
      BY SameCall
<1>10. \A t, m : CallerEnds(t, m) => CallerEnds(t, m)'
       BY <1>2, <1>7, <1>8, <1>9, Shapes DEF CallerEnds
<1>11. \A t, m : Ending(t, m) => Ending(t, m)'
       BY <1>2, <1>7, <1>8, <1>9, <1>10, Shapes DEF Ending
<1> QED
    BY <1>4, <1>5, <1>6, <1>11

LEMMA CourseStays ==
    ASSUME \A p \in Parties : StaysPut(p), log' = log, cache' = cache, strangers' = strangers,
           call' = call, sess'["callee"].asked = sess["callee"].asked, Course
    PROVE  Course'
<1>1. CASE Opens
      BY <1>1, StageStays, SameCall DEF Opens, Course
<1>2. CASE Agrees
      BY <1>2, StageStays, SameCall DEF Agrees, Course
<1>3. CASE Departs
      BY <1>3, StageStays, SameCall DEF Departs, Course
<1>4. CASE Ends
      BY <1>4, StageStays, SameCall DEF Ends, Course
<1> QED
    BY <1>1, <1>2, <1>3, <1>4 DEF Course
-----------------------------------------------------------------------------
(* The call beside DIA. *)

\* The exchange is under way, undisturbed.
Underway == Being /\ Going /\ Calls /\ Course

\* Steps that disturb the exchange, or end the call.
LEMMA Disturbs ==
    ASSUME NEW p \in Parties,
           \/ UserHangsUp \/ TimerRejects \/ Break(p) \/ Lose(p) \/ StartFails(p) \/ Forget(p)
    PROVE  ~Going'
BY DEF Going, UserHangsUp, TimerRejects, Break, Lose, StartFails, Forget, Fault, RejectCall, Over

\* Steps that there are none of.
LEMMA NoEndReject == ASSUME Underway, EndReject PROVE FALSE
BY DEF Underway, Calls, EndReject

LEMMA NoClosed == ASSUME Underway, NEW p \in Parties, HandleClosed(p) PROVE FALSE
<1>1. events[p] \in Seq({"established"}) /\ events[p] # <<>> /\ Head(events[p]) = "closed"
      BY DEF Underway, Calls, HandleClosed
<1>2. Head(events[p]) \in {"established"}
      BY <1>1, Shorter
<1> QED
    BY <1>1, <1>2

LEMMA NoEndClosed == ASSUME Underway, NEW p \in Parties, EndClosed(p) PROVE FALSE
BY DEF Underway, Calls, EndClosed

\* While a party has no relay session, the parties are opening.
LEMMA EarlyOpens == ASSUME Course, NEW p \in Parties, ~Works(p) PROVE Opens
BY OtherParty DEF Course, Agrees, Departs, Ends, Answering, Completing, CallerMoves, CalleeMoves,
                  CallerEnds, Ending, Stands

\* handleIncomingCall: the callee had no relay session.
LEMMA CourseIncoming == ASSUME Underway, HandleIncomingCall PROVE Calls' /\ Course'
<1> DEFINE s == [NoSession EXCEPT !.pc = "starting", !.reg = "yes", !.timer = DIATimeout]
<1>0. SessType /\ Going /\ Calls /\ Course
      BY BeingParts DEF Underway
<1>1. /\ s.pc = "starting" /\ s.reg = "yes" /\ s.state = "other" /\ s.complete = FALSE
      BY DEF NoSession
<1>2. sess' = [sess EXCEPT !["callee"] = s] /\ sip = "invited" /\ sip' = "ringing"
      BY DEF HandleIncomingCall
<1>3. UNCHANGED <<call, events, cache, net, ghost>>
      BY DEF HandleIncomingCall
<1> HIDE DEF s
<1>4. sess'["callee"] = s /\ sess'["caller"] = sess["caller"]
      BY <1>0, <1>2, Shapes DEF SessType
<1>5. Calls'
  <2>1. \A p \in Parties : sess'[p].reg # "ending" /\ sess'[p].state # "closed"
        BY <1>0, <1>1, <1>4, OtherParty DEF Calls
  <2> QED
      BY <1>0, <1>1, <1>2, <1>3, <1>4, <2>1 DEF Calls
<1>6. sess["callee"].pc = "off"
      BY <1>0, <1>2 DEF Calls
<1>7. Opens
  <2>1. ~Works("callee")
        BY <1>6 DEF Works
  <2> QED
      BY <1>0, <2>1, EarlyOpens, Shapes
<1>8. StaysPut("caller")
      BY <1>3, <1>4 DEF StaysPut, Early, Works
<1>9. PICK k \in 0 .. OldKeys + MaxCalls : Opening(k, Msg(FirstKind(k), "caller"))
      BY <1>7 DEF Opens
<1>10. Absent("callee")
      BY <1>6, <1>9 DEF Opening, CalleeOpens, Waits, Stands, Works
<1>11. Absent("callee")'
       BY <1>1, <1>3, <1>4, <1>10 DEF Absent, Early, Holds
<1> DEFINE t == FirstTopic(k)
           mode == FirstMode(k)
           m == Msg(FirstKind(k), "caller")
<1>12. m' = m /\ t' = t /\ mode' = mode
       BY <1>3, SameCall
<1> HIDE DEF t, mode, m
<1>13. CallerOpens(t, mode, m)'
  <2>1. CallerOpens(t, mode, m)
        BY <1>9 DEF Opening, t, mode, m
  <2> QED
      BY <1>3, <1>8, <1>12, <2>1, Places DEF CallerOpens
<1>14. Opening(k, Msg(FirstKind(k), "caller"))'
  BY <1>3, <1>9, <1>11, <1>13 DEF Opening, CalleeOpens, t, mode, m
<1>15. log[FreshRUA(call)] = <<>>
      BY <1>7 DEF Opens
<1> QED
    BY <1>3, <1>5, <1>14, <1>15, SameCall DEF Course, Opens

\* handleCallEstablished, on either side.
LEMMA CourseEstablished ==
    ASSUME Underway, NEW p \in Parties, HandleEstablished(p)
    PROVE  Calls' /\ Course'
<1>0. SessType /\ Going /\ Calls /\ Course
      BY BeingParts DEF Underway
<1>1. UNCHANGED <<call, sip, cache, net, ghost>> /\ events' = [events EXCEPT ![p] = Tail(@)]
      BY DEF HandleEstablished
<1>2. \A q \in Parties : events'[q] \in Seq({"established"})
  <2>1. events \in [Parties -> Seq({"established", "closed"})]
        BY BeingParts DEF Underway, ControlType
  <2>2. Tail(events[p]) \in Seq({"established"})
        BY <1>0, Shorter DEF Calls, HandleEstablished
  <2> QED
      BY <1>0, <1>1, <2>1, <2>2 DEF Calls
<1>3. \A q \in Parties : /\ sess'[q].pc = sess[q].pc /\ sess'[q].mode = sess[q].mode
                         /\ sess'[q].topic = sess[q].topic /\ sess'[q].asked = sess[q].asked
                         /\ sess'[q].complete = sess[q].complete /\ sess'[q].reg = sess[q].reg
                         /\ sess'[q].state \in {"other", sess[q].state}
  <2>1. sess[p] \in SessionType
        BY <1>0 DEF SessType
  <2> DEFINE s == [sess[p] EXCEPT !.state = "other"]
  <2>2. /\ s.pc = sess[p].pc /\ s.mode = sess[p].mode /\ s.topic = sess[p].topic
        /\ s.asked = sess[p].asked /\ s.complete = sess[p].complete /\ s.reg = sess[p].reg
        /\ s.state = "other"
        BY <2>1 DEF SessionType
  <2>3. sess' = [sess EXCEPT ![p] = s] \/ sess' = sess
        BY DEF HandleEstablished
  <2> HIDE DEF s
  <2>4. \A q \in Parties : sess'[q] = sess[q] \/ (q = p /\ sess'[q] = s)
        BY <1>0, <2>3 DEF SessType
  <2> QED
      BY <2>2, <2>4
<1>4. Calls'
      BY <1>0, <1>1, <1>2, <1>3, Shapes DEF Calls
<1>5. \A q \in Parties : StaysPut(q)
      BY <1>1, <1>3 DEF StaysPut, Early, Works
<1> QED
    BY <1>0, <1>1, <1>3, <1>4, <1>5, CourseStays, Shapes

\* The gate, when it opens and the command does not fail.
LEMMA CourseGate == ASSUME Underway, Gate, Going' PROVE Calls' /\ Course'
<1> DEFINE s == sess["callee"]
           new == [s EXCEPT !.pc = "idle", !.timer = FALSE]
<1>0. ControlType /\ SessType /\ Going /\ Calls /\ Course /\ s \in SessionType
      BY BeingParts, Shapes DEF Underway, SessType
<1>1. GateOpen
      BY DEF Gate, RejectOnError, RejectCall, Over, Going
<1>2. /\ sess' = [sess EXCEPT !["callee"] = new] /\ Accept /\ UNCHANGED ghost
      /\ UNCHANGED <<call, cache, net>> /\ s.pc = "gate"
      BY <1>1 DEF Gate, AnswerCall, Fault, Going
<1>3. /\ new.pc = "idle" /\ new.mode = s.mode /\ new.topic = s.topic /\ new.asked = s.asked
      /\ new.complete = s.complete /\ new.reg = s.reg /\ new.state = s.state
      BY <1>0 DEF SessionType
<1> HIDE DEF new
<1>4. sess'["callee"] = new /\ sess'["caller"] = sess["caller"]
      BY <1>0, <1>2, Shapes DEF SessType
<1>5. sip = "ringing" /\ s.complete
      BY <1>0, <1>2 DEF Calls
<1>6. sip' = "up" /\ \A p \in Parties : events'[p] \in Seq({"established"})
  <2>1. \A p \in Parties : Append(events[p], "established") \in Seq({"established"})
        BY <1>0 DEF Calls
  <2> QED
      BY <1>2, <1>5, <2>1 DEF Accept
<1>7. Calls'
  <2>1. \A p \in Parties : sess'[p].reg # "ending" /\ sess'[p].state # "closed"
        BY <1>0, <1>3, <1>4, OtherParty DEF Calls
  <2> QED
      BY <1>0, <1>2, <1>3, <1>4, <1>5, <1>6, <2>1 DEF Calls
<1>8. StaysPut("caller") /\ StaysPut("callee")
      BY <1>2, <1>3, <1>4 DEF StaysPut, Early, Works
<1> QED
    BY <1>0, <1>2, <1>3, <1>4, <1>7, <1>8, OtherParty, CourseStays
-----------------------------------------------------------------------------
(* The parties open their relay sessions. *)

LEMMA OpenedPlaces ==
    ASSUME TypeOK, NEW p \in Parties, NEW t \in Topics, NEW mode \in {"ake", "rua"}, NEW requests,
           Opened(p, t, mode, requests), UNCHANGED feed, Absent(p)
    PROVE  /\ Waits(p, mode, t)' /\ Holds(p, requests, <<>>)' /\ StaysPut(Other(p))
           /\ sess'[p].pc = "idle" /\ sess'[p].reg = sess[p].reg /\ sess'[p].state = "other"
           /\ sess'[p].asked = sess[p].asked /\ sess'[p].complete = sess[p].complete
           /\ sess'[Other(p)] = sess[Other(p)]
<1> DEFINE s == [sess[p] EXCEPT !.pc = "idle", !.state = "other", !.topic = t, !.mode = mode]
<1>0. SessType /\ RelayType
      BY TypeParts
<1>1. /\ s.pc = "idle" /\ s.reg = sess[p].reg /\ s.state = "other" /\ s.topic = t
      /\ s.mode = mode /\ s.asked = sess[p].asked /\ s.complete = sess[p].complete
  <2>1. sess[p] \in SessionType
        BY <1>0 DEF SessType
  <2> QED
      BY <2>1 DEF SessionType
<1>2. /\ sess' = [sess EXCEPT ![p] = s] /\ link' = [link EXCEPT ![p] = "down"]
      /\ out' = [out EXCEPT ![p] = requests]
      BY DEF Opened
<1> HIDE DEF s
<1>3. Other(p) \in Parties /\ Other(p) # p
      BY OtherParty, Shapes
<1>4. sess'[p] = s /\ sess'[Other(p)] = sess[Other(p)]
      BY <1>0, <1>2, <1>3 DEF SessType
<1>5. /\ link'[p] = "down" /\ link'[Other(p)] = link[Other(p)]
      /\ out'[p] = requests /\ out'[Other(p)] = out[Other(p)]
      BY <1>0, <1>2, <1>3 DEF RelayType
<1>6. StaysPut(Other(p))
      BY <1>4, <1>5 DEF StaysPut, Early, Works
<1>7. Waits(p, mode, t)' /\ Holds(p, requests, <<>>)'
      BY <1>1, <1>4, <1>5 DEF Waits, Works, Holds, Absent
<1> QED
    BY <1>1, <1>4, <1>6, <1>7

\* What they open with is a topic, a protocol state, a message.
LEMMA Firsts ==
    ASSUME NEW k \in 0 .. OldKeys + MaxCalls, call \in 1 .. MaxCalls
    PROVE  /\ FirstTopic(k) \in Topics /\ FirstMode(k) \in {"ake", "rua"}
           /\ FirstKind(k) \in {"AKERequest", "RUARequest"}
           /\ Msg(FirstKind(k), "caller") \in Messages
           /\ FirstTopic(k) # FreshRUA(call) /\ FreshRUA(call) \in Topics
<1>1. k # 0 => k \in Keys
      BY DEF Keys
<1>2. FirstTopic(k) \in Topics /\ FirstMode(k) \in {"ake", "rua"}
      BY <1>1, Shapes DEF FirstTopic, FirstMode
<1>3. FirstKind(k) \in {"AKERequest", "RUARequest"}
      BY DEF FirstKind
<1>4. Msg(FirstKind(k), "caller") \in Messages
      BY <1>3, Shapes DEF Kinds
<1>5. FirstTopic(k) # FreshRUA(call) /\ FreshRUA(call) \in Topics
  <2>1. \A n, j : FreshRUA(n) # CachedRUA(j)
        BY DEF FreshRUA, CachedRUA
  <2> QED
      BY <2>1, Shapes DEF FirstTopic
<1> QED
    BY <1>2, <1>3, <1>4, <1>5

LEMMA CallRange == ASSUME Underway PROVE call \in 1 .. MaxCalls /\ TypeOK
BY BeingParts DEF Underway, Being, Calls, ControlType

\* runOutgoingDIA: with a cached session if and only if there is one.
LEMMA CourseCallerStarts == ASSUME Underway, CallerStarts, Going' PROVE Calls' /\ Course'
<1>0. TypeOK /\ Going /\ Calls /\ Course /\ call \in 1 .. MaxCalls
      BY CallRange DEF Underway
<1>1. sess["caller"].pc = "starting" /\ UNCHANGED <<call, phone, cache, feed, verdicts>>
      BY DEF CallerStarts
<1>2. ~Works("caller") /\ Opens
  <2>1. ~Works("caller")
        BY <1>1 DEF Works
  <2> QED
      BY <1>0, <2>1, EarlyOpens, Shapes
<1>3. PICK k \in 0 .. OldKeys + MaxCalls : Opening(k, Msg(FirstKind(k), "caller"))
      BY <1>2 DEF Opens
<1> DEFINE t == FirstTopic(k)
           mode == FirstMode(k)
<1>4. PICK m \in Messages : m = Msg(FirstKind(k), "caller")
       BY <1>0, Firsts
<1>5. t \in Topics /\ mode \in {"ake", "rua"}
      BY <1>0, Firsts
<1>6. Opened("caller", t, mode, <<Publish(t, m)>>)
  <2>1. cache["caller"] = k
        BY <1>3 DEF Opening
  <2>2. CASE k = 0
        BY <1>4, <2>1, <2>2 DEF CallerStarts, Lookup, Cached, FirstTopic, FirstMode, FirstKind
  <2>3. CASE k # 0
    <3>1. ~Lookup("caller", FALSE)
          BY <2>1, <2>3 DEF Lookup, Cached, Fault, Going
    <3> QED
        BY <1>4, <2>1, <2>3, <3>1 DEF CallerStarts, FirstTopic, FirstMode, FirstKind
  <2> QED
      BY <2>2, <2>3
<1>7. t' = t /\ mode' = mode /\ Msg(FirstKind(k), "caller")' = m
      BY <1>1, <1>4, SameCall
<1>8. CallerOpens(t, mode, m) /\ CalleeOpens(t, mode) /\ cache["caller"] = k /\ cache["callee"] = k
      BY <1>3, <1>4 DEF Opening
<1> HIDE DEF t, mode
<1>9. Absent("caller") /\ log[t] = <<>>
      BY <1>2, <1>8 DEF CallerOpens, Waits, Stands
<1>10. /\ Waits("caller", mode, t)' /\ Holds("caller", <<Publish(t, m)>>, <<>>)'
      /\ StaysPut("callee") /\ sess'["caller"].pc = "idle"
      /\ sess'["caller"].reg = sess["caller"].reg /\ sess'["caller"].state = "other"
      /\ sess'["callee"] = sess["callee"]
      BY <1>0, <1>1, <1>5, <1>6, <1>9, OpenedPlaces, OtherParty, Shapes
<1>11. CallerOpens(t, mode, m)'
       BY <1>1, <1>7, <1>9, <1>10 DEF CallerOpens
<1>12. CalleeOpens(t, mode)'
       BY <1>1, <1>7, <1>8, <1>10, Places DEF CalleeOpens
<1>13. Opening(k, Msg(FirstKind(k), "caller"))'
       BY <1>1, <1>7, <1>8, <1>11, <1>12 DEF Opening, t, mode
<1>14. Course'
  <2>1. log'[FreshRUA(call')] = <<>>
        BY <1>1, <1>2 DEF Opens
  <2> QED
      BY <1>13, <2>1 DEF Course, Opens
<1>15. Calls'
  <2>1. \A p \in Parties : sess'[p].reg # "ending" /\ sess'[p].state # "closed"
        BY <1>0, <1>10, OtherParty DEF Calls
  <2> QED
      BY <1>0, <1>1, <1>10, <2>1 DEF Calls
<1> QED
    BY <1>14, <1>15

\* runIncomingDIA: the same, on the same topic.
LEMMA CourseCalleeStarts == ASSUME Underway, CalleeStarts, Going' PROVE Calls' /\ Course'
<1>0. TypeOK /\ Going /\ Calls /\ Course /\ call \in 1 .. MaxCalls
      BY CallRange DEF Underway
<1>1. sess["callee"].pc = "starting" /\ UNCHANGED <<call, phone, cache, feed, verdicts>>
      BY DEF CalleeStarts
<1>2. ~Works("callee") /\ Opens
  <2>1. ~Works("callee")
        BY <1>1 DEF Works
  <2> QED
      BY <1>0, <2>1, EarlyOpens, Shapes
<1>3. PICK k \in 0 .. OldKeys + MaxCalls : Opening(k, Msg(FirstKind(k), "caller"))
      BY <1>2 DEF Opens
<1> DEFINE t == FirstTopic(k)
           mode == FirstMode(k)
           m == Msg(FirstKind(k), "caller")
<1>4. t \in Topics /\ mode \in {"ake", "rua"}
      BY <1>0, Firsts
<1>5. Opened("callee", t, mode, <<>>)
  <2>1. cache["callee"] = k
        BY <1>3 DEF Opening
  <2>2. CASE k = 0
        BY <2>1, <2>2 DEF CalleeStarts, Lookup, Cached, FirstTopic, FirstMode
  <2>3. CASE k # 0
    <3>1. ~Lookup("callee", FALSE)
          BY <2>1, <2>3 DEF Lookup, Cached, Fault, Going
    <3> QED
        BY <2>1, <2>3, <3>1 DEF CalleeStarts, FirstTopic, FirstMode, OnCachedTopic
  <2> QED
      BY <2>2, <2>3
<1>6. m' = m /\ t' = t /\ mode' = mode
      BY <1>1, SameCall
<1>7. CallerOpens(t, mode, m) /\ CalleeOpens(t, mode) /\ cache["caller"] = k /\ cache["callee"] = k
      BY <1>3 DEF Opening
<1> HIDE DEF t, mode, m
<1>8. Absent("callee")
      BY <1>2, <1>7 DEF CalleeOpens, Waits, Stands
<1>9. /\ Waits("callee", mode, t)' /\ Holds("callee", <<>>, <<>>)'
      /\ StaysPut("caller") /\ sess'["callee"].pc = "idle"
      /\ sess'["callee"].reg = sess["callee"].reg /\ sess'["callee"].state = "other"
      /\ sess'["callee"].complete = sess["callee"].complete /\ sess'["caller"] = sess["caller"]
      BY <1>0, <1>1, <1>4, <1>5, <1>8, OpenedPlaces, OtherParty, Shapes
<1>10. CallerOpens(t, mode, m)'
       BY <1>1, <1>6, <1>7, <1>9, Places DEF CallerOpens
<1>11. CalleeOpens(t, mode)'
       BY <1>1, <1>6, <1>9 DEF CalleeOpens
<1>12. Opening(k, Msg(FirstKind(k), "caller"))'
       BY <1>1, <1>7, <1>10, <1>11 DEF Opening, t, mode, m
<1>13. Course'
  <2>1. log'[FreshRUA(call')] = <<>>
        BY <1>1, <1>2 DEF Opens
  <2> QED
      BY <1>12, <2>1 DEF Course, Opens
<1>14. Calls'
  <2>1. \A p \in Parties : sess'[p].reg # "ending" /\ sess'[p].state # "closed"
        BY <1>0, <1>9, OtherParty DEF Calls
  <2> QED
      BY <1>0, <1>1, <1>9, <2>1 DEF Calls
<1> QED
    BY <1>13, <1>14
-----------------------------------------------------------------------------
(* The streams come up. *)

\* A stream that is not up yet is one of a party that opens.
LEMMA DownOpens == ASSUME Course, NEW p \in Parties, link[p] # "up" PROVE Opens
BY OtherParty DEF Course, Agrees, Departs, Ends, Answering, Completing, CallerMoves, CalleeMoves,
                  CallerEnds, Ending, Stands

LEMMA ConnectPlaces ==
    ASSUME TypeOK, NEW p \in Parties, NEW t \in Topics, NEW mode, NEW requests, Connect(p),
           Waits(p, mode, t), Holds(p, requests, <<>>)
    PROVE  /\ Stands(p, mode, t, t)' /\ Holds(p, requests, Replay(p, t))'
           /\ StaysPut(Other(p))
<1>0. RelayType
      BY TypeParts
<1>1. /\ link' = [link EXCEPT ![p] = "up"] /\ at' = [at EXCEPT ![p] = t]
      /\ inb' = [inb EXCEPT ![p] = Replay(p, t)] /\ UNCHANGED <<sess, out, log, call>>
      BY DEF Connect, Waits
<1>2. Other(p) \in Parties /\ Other(p) # p
      BY OtherParty, Shapes
<1>3. /\ link'[p] = "up" /\ at'[p] = t /\ inb'[p] = Replay(p, t)
      /\ link'[Other(p)] = link[Other(p)] /\ at'[Other(p)] = at[Other(p)]
      /\ inb'[Other(p)] = inb[Other(p)]
      BY <1>0, <1>1, <1>2 DEF RelayType
<1>4. StaysPut(Other(p))
      BY <1>1, <1>3 DEF StaysPut, Early, Works
<1>5. Replay(p, t)' = Replay(p, t)
      BY <1>1 DEF Replay, Shown, Nth
<1>6. Stands(p, mode, t, t)' /\ Holds(p, requests, Replay(p, t))'
      BY <1>1, <1>3, <1>5 DEF Stands, Waits, Works, Holds
<1> QED
    BY <1>4, <1>6

\* Nothing but the DIA part of the exchange changes.
LEMMA CallsStay ==
    ASSUME Calls, UNCHANGED <<call, sip, events, sess>>
    PROVE  Calls'
BY DEF Calls

\* tunnelLoop: the callee is shown the caller's request if that was sent before.
LEMMA CourseConnect ==
    ASSUME Underway, NEW p \in Parties, Connect(p)
    PROVE  Calls' /\ Course'
<1>0. TypeOK /\ Calls /\ Course /\ call \in 1 .. MaxCalls
      BY CallRange DEF Underway
<1>1. link[p] = "down" /\ UNCHANGED <<call, phone, sess, cache, out, log, ghost, verdicts>>
      BY DEF Connect
<1>2. Opens
      BY <1>0, <1>1, DownOpens
<1>3. PICK k \in 0 .. OldKeys + MaxCalls : Opening(k, Msg(FirstKind(k), "caller"))
      BY <1>2 DEF Opens
<1>4. PICK m \in Messages : m = Msg(FirstKind(k), "caller")
      BY <1>0, Firsts
<1> DEFINE t == FirstTopic(k)
           mode == FirstMode(k)
<1>5. t \in Topics /\ m.from = "caller"
      BY <1>0, <1>4, Firsts DEF Msg
<1>6. t' = t /\ mode' = mode /\ Msg(FirstKind(k), "caller")' = m
      BY <1>1, <1>4, SameCall
<1>7. CallerOpens(t, mode, m) /\ CalleeOpens(t, mode) /\ cache["caller"] = k /\ cache["callee"] = k
      BY <1>3, <1>4 DEF Opening
<1> HIDE DEF t, mode
<1>8. CallerOpens(t, mode, m)' /\ CalleeOpens(t, mode)'
  <2>1. CASE p = "caller"
    <3>1. /\ Waits("caller", mode, t) /\ Holds("caller", <<Publish(t, m)>>, <<>>)
          /\ log[t] = <<>>
          BY <1>1, <1>7, <2>1 DEF CallerOpens, Absent, Stands
    <3>2. Replay("caller", t) = <<>>
          BY <3>1, ReplayNothing
    <3>3. Replay("caller", t)' = <<>>
          BY <1>1, <3>2 DEF Replay, Shown, Nth
    <3>4. PICK o : o = <<Publish(t, m)>>
          OBVIOUS
    <3>5. /\ Stands("caller", mode, t, t)' /\ Holds("caller", o, Replay("caller", t))'
          /\ StaysPut("callee")
          BY <1>0, <1>5, <2>1, <3>1, <3>4, ConnectPlaces, OtherParty
    <3>6. CallerOpens(t, mode, m)'
          BY <1>1, <1>6, <3>1, <3>3, <3>4, <3>5 DEF CallerOpens, Holds, Publish
    <3>7. CalleeOpens(t, mode)'
          BY <1>1, <1>6, <1>7, <3>5, Places DEF CalleeOpens
    <3> QED
        BY <3>6, <3>7
  <2>2. CASE p = "callee"
    <3>1. Waits("callee", mode, t) /\ Holds("callee", <<>>, <<>>)
          BY <1>1, <1>7, <2>2 DEF CalleeOpens, Absent, Stands
    <3>2. log[t] = <<>> \/ log[t] = <<m>>
          BY <1>7 DEF CallerOpens
    <3>3. Replay("callee", t) = log[t]
          BY <1>5, <3>2, ReplayNothing, ReplayOne
    <3>4. Replay("callee", t)' = log'[t]
          BY <1>1, <3>3 DEF Replay, Shown, Nth
    <3>5. /\ Stands("callee", mode, t, t)' /\ Holds("callee", <<>>, Replay("callee", t))'
          /\ StaysPut("caller")
          BY <1>0, <1>5, <2>2, <3>1, ConnectPlaces, OtherParty
    <3>6. CallerOpens(t, mode, m)'
          BY <1>1, <1>6, <1>7, <3>5, Places DEF CallerOpens
    <3>7. CalleeOpens(t, mode)'
          BY <1>6, <3>4, <3>5 DEF CalleeOpens, Holds
    <3> QED
        BY <3>6, <3>7
  <2> QED
      BY <2>1, <2>2, OtherParty
<1>9. Opening(k, Msg(FirstKind(k), "caller"))'
      BY <1>1, <1>6, <1>7, <1>8 DEF Opening, t, mode
<1>10. Course'
  <2>1. log'[FreshRUA(call')] = <<>>
        BY <1>1, <1>2 DEF Opens
  <2> QED
      BY <1>9, <2>1 DEF Course, Opens
<1> QED
    BY <1>0, <1>1, <1>10, CallsStay
-----------------------------------------------------------------------------
(* The relay takes what a party sends. *)

LEMMA RelayKeeps ==
    ASSUME NEW p \in Parties, RelayTakes(p)
    PROVE  /\ UNCHANGED <<call, phone, sess, cache, link, ghost, verdicts>>
           /\ link[p] = "up" /\ out[p] # <<>>
BY DEF RelayTakes

\* The caller's request.
LEMMA CourseRequest ==
    ASSUME Underway, NEW p \in Parties, RelayTakes(p), Opens
    PROVE  Course'
<1>0. TypeOK /\ RelayType /\ Calls /\ call \in 1 .. MaxCalls
      BY CallRange, TypeParts DEF Underway
<1>1. /\ UNCHANGED <<call, phone, sess, cache, link, ghost, verdicts>>
      /\ link[p] = "up" /\ out[p] # <<>>
      BY RelayKeeps
<1>2. PICK k \in 0 .. OldKeys + MaxCalls : Opening(k, Msg(FirstKind(k), "caller"))
      BY DEF Opens
<1>3. PICK m \in Messages : m = Msg(FirstKind(k), "caller")
      BY <1>0, Firsts
<1> DEFINE t == FirstTopic(k)
           mode == FirstMode(k)
           r == FreshRUA(call)
<1>4. t \in Topics /\ t # None /\ r \in Topics \ {t} /\ m.kind \notin {"AKEComplete", "Bye"}
      BY <1>0, <1>3, Firsts, Shapes DEF Msg
<1>5. t' = t /\ mode' = mode /\ Msg(FirstKind(k), "caller")' = m /\ r' = r
      BY <1>1, <1>3, SameCall
<1>6. CallerOpens(t, mode, m) /\ CalleeOpens(t, mode) /\ cache["caller"] = k /\ cache["callee"] = k
      BY <1>2, <1>3 DEF Opening
<1>7. log[r] = <<>>
      BY DEF Opens
<1> HIDE DEF t, mode, r
<1>8. p = "caller"
      BY <1>1, <1>6, OtherParty DEF CalleeOpens, Holds, Absent
<1>9. /\ Stands("caller", mode, t, t) /\ out["caller"] = <<Publish(t, m)>>
      /\ inb["caller"] = <<>> /\ log[t] = <<>>
      BY <1>1, <1>6, <1>8 DEF CallerOpens, Absent, Waits, Holds
<1>10. /\ out'["caller"] = Tail(out["caller"]) /\ out'["callee"] = out["callee"]
       /\ at'["caller"] = at["caller"] /\ at'["callee"] = at["callee"]
       /\ inb'["caller"] = inb["caller"]
       /\ inb'["callee"] = IF at["callee"] = t THEN inb["callee"] \o <<m>> ELSE inb["callee"]
       /\ log'[t] = log[t] \o <<m>> /\ \A u \in Topics \ {t} : log'[u] = log[u]
  <2>1. at["caller"] = t /\ Head(out["caller"]) = Publish(t, m) /\ RelayTakes("caller")
        BY <1>8, <1>9, Queues DEF Stands
  <2>2. "caller" \in Parties /\ "callee" \in Parties /\ "callee" = Other("caller")
        BY OtherParty, Shapes
  <2>3. TypeOK /\ t \in Topics /\ m \in Messages
        BY <1>0, <1>3, <1>4
  <2>4. Sent("caller", "callee", t, m)
        BY <2>1, <2>2, <2>3, SendsTo
  <2> QED
      BY <1>4, <2>4 DEF Sent
<1>11. out'["caller"] = <<>> /\ out'["callee"] = out["callee"]
       BY <1>0, <1>9, <1>10, Queues, Shapes DEF RelayType
<1>12. log'[t] = <<m>> /\ log'[r] = <<>>
       BY <1>4, <1>7, <1>9, <1>10, Joins
<1>13. CallerOpens(t, mode, m)'
  <2>1. Stands("caller", mode, t, t)'
        BY <1>1, <1>9, <1>10 DEF Stands, Works
  <2> QED
      BY <1>5, <1>9, <1>10, <1>11, <1>12, <2>1 DEF CallerOpens, Holds
<1>14. CalleeOpens(t, mode)'
  <2>1. CASE Absent("callee")
    <3>1. at["callee"] # t
          BY <1>4, <2>1 DEF Absent
    <3> QED
        BY <1>1, <1>10, <1>11, <2>1, <3>1 DEF CalleeOpens, Absent, Early, Holds
  <2>2. CASE Waits("callee", mode, t) /\ Holds("callee", <<>>, <<>>)
    <3>1. at["callee"] # t
          BY <1>4, <2>2 DEF Waits
    <3> QED
        BY <1>1, <1>5, <1>10, <1>11, <2>2, <3>1 DEF CalleeOpens, Waits, Works, Holds
  <2>3. CASE Stands("callee", mode, t, t) /\ Holds("callee", <<>>, log[t])
    <3>1. Stands("callee", mode, t, t)'
          BY <1>1, <1>10, <2>3 DEF Stands, Works
    <3>2. inb'["callee"] = <<m>>
          BY <1>9, <1>10, <2>3, Joins DEF Stands, Holds
    <3> QED
        BY <1>5, <1>11, <1>12, <2>3, <3>1, <3>2 DEF CalleeOpens, Holds
  <2> QED
      BY <1>6, <2>1, <2>2, <2>3 DEF CalleeOpens
<1>15. Opening(k, Msg(FirstKind(k), "caller"))'
       BY <1>1, <1>5, <1>6, <1>13, <1>14 DEF Opening, t, mode
<1> QED
    BY <1>5, <1>12, <1>15 DEF Course, Opens, r

\* The AKE response and AKE complete.
LEMMA CourseAgreed ==
    ASSUME Underway, NEW p \in Parties, RelayTakes(p), Agrees
    PROVE  Course'
<1>0. TypeOK /\ RelayType /\ Calls /\ call \in 1 .. MaxCalls
      BY CallRange, TypeParts DEF Underway
<1>1. /\ UNCHANGED <<call, phone, sess, cache, link, ghost, verdicts>>
      /\ link[p] = "up" /\ out[p] # <<>>
      BY RelayKeeps
<1>2. PICK m1 \in Messages : m1 = Msg("AKEResponse", "callee")
      BY <1>0, Shapes DEF Kinds
<1>3. PICK m2 \in Messages : m2 = Msg("AKEComplete", "caller")
      BY <1>0, Shapes DEF Kinds
<1>4. PICK n \in Messages : n = Msg("RUARequest", "caller")
      BY <1>0, Shapes DEF Kinds
<1>5. PICK r \in Topics : r = FreshRUA(call)
      BY <1>0, Shapes
<1>6. /\ Msg("AKEResponse", "callee")' = m1 /\ Msg("AKEComplete", "caller")' = m2
      /\ Msg("RUARequest", "caller")' = n /\ FreshRUA(call)' = r
      BY <1>1, <1>2, <1>3, <1>4, <1>5, SameCall
<1>7. log[r] = <<>> /\ sess'["callee"].asked = call' /\ sess["callee"].asked = call
      BY <1>1, <1>5 DEF Agrees
<1>8. AKETopic \in Topics /\ r # AKETopic /\ r \in Topics \ {AKETopic}
      BY <1>0, <1>5, Shapes
<1>9. m1.kind = "AKEResponse" /\ m2.kind = "AKEComplete"
      BY <1>2, <1>3 DEF Msg
<1>10. CASE Answering(m1)
  <2>1. /\ p = "callee" /\ out["callee"] = <<Publish(AKETopic, m1)>> /\ inb["callee"] = <<>>
        /\ out["caller"] = <<>> /\ inb["caller"] = <<>>
        BY <1>1, <1>10, OtherParty DEF Answering, Holds
  <2>2. /\ Stands("caller", "ake", AKETopic, AKETopic)
        /\ Stands("callee", "ake", AKETopic, AKETopic)
        BY <1>10 DEF Answering
  <2>3. /\ out'["callee"] = Tail(out["callee"]) /\ out'["caller"] = out["caller"]
        /\ at'["caller"] = at["caller"] /\ at'["callee"] = at["callee"]
        /\ inb'["callee"] = inb["callee"] /\ inb'["caller"] = inb["caller"] \o <<m1>>
        /\ log'[r] = log[r]
    <3>1. /\ at["callee"] = AKETopic /\ at["caller"] = AKETopic
          /\ Head(out["callee"]) = Publish(AKETopic, m1) /\ RelayTakes("callee")
          BY <2>1, <2>2, Queues DEF Stands
    <3>2. /\ "caller" \in Parties /\ "callee" \in Parties
          /\ "callee" = Other("caller") /\ "caller" = Other("callee")
          BY OtherParty, Shapes
    <3>3. Sent("callee", "caller", AKETopic, m1)
          BY <1>0, <1>2, <1>3, <1>8, <3>1, <3>2, SendsTo
    <3> QED
        BY <1>8, <1>9, <3>1, <3>3 DEF Sent
  <2>4. out'["callee"] = <<>> /\ out'["caller"] = <<>> /\ inb'["caller"] = <<m1>>
        BY <1>0, <2>1, <2>3, Queues, Joins, Shapes DEF RelayType
  <2>5. Answering(m1)'
        BY <1>1, <2>1, <2>2, <2>3, <2>4 DEF Answering, Stands, Works, Holds
  <2> QED
      BY <1>6, <1>7, <2>3, <2>5 DEF Course, Agrees
<1>11. CASE Completing(r, m2, n)
  <2>1. /\ p = "caller" /\ out["caller"] = <<Publish(AKETopic, m2), Subscribe(r, <<n>>)>>
        /\ inb["callee"] = <<>> /\ out["callee"] = <<>> /\ inb["caller"] = <<>>
        BY <1>1, <1>11, OtherParty DEF Completing, Holds
  <2>2. Stands("caller", "rua", r, AKETopic) /\ Stands("callee", "ake", AKETopic, AKETopic)
        BY <1>11 DEF Completing
  <2>3. /\ out'["caller"] = Tail(out["caller"]) /\ out'["callee"] = out["callee"]
        /\ at'["caller"] = at["caller"] /\ at'["callee"] = at["callee"]
        /\ inb'["caller"] = inb["caller"] /\ inb'["callee"] = inb["callee"] \o <<m2>>
        /\ log'[r] = log[r]
    <3>1. /\ at["callee"] = AKETopic /\ at["caller"] = AKETopic
          /\ Head(out["caller"]) = Publish(AKETopic, m2) /\ RelayTakes("caller")
          BY <2>1, <2>2, Queues DEF Stands
    <3>2. /\ "caller" \in Parties /\ "callee" \in Parties
          /\ "callee" = Other("caller") /\ "caller" = Other("callee")
          BY OtherParty, Shapes
    <3>3. Sent("caller", "callee", AKETopic, m2)
          BY <1>0, <1>2, <1>3, <1>8, <3>1, <3>2, SendsTo
    <3> QED
        BY <1>8, <1>9, <3>1, <3>3 DEF Sent
  <2>4. /\ out'["caller"] = <<Subscribe(r, <<n>>)>> /\ out'["callee"] = <<>>
        /\ inb'["callee"] = <<m2>>
        BY <1>0, <2>1, <2>3, Queues, Joins, Shapes DEF RelayType
  <2>5. CallerMoves(r, n)' /\ CalleeMoves(r, m2)'
        BY <1>1, <1>7, <2>1, <2>2, <2>3, <2>4
           DEF CallerMoves, CalleeMoves, Stands, Works, Holds, Subscribe
  <2> QED
      BY <1>6, <1>7, <2>5 DEF Course, Departs
<1> QED
    BY <1>2, <1>3, <1>4, <1>5, <1>10, <1>11 DEF Agrees
\* The move to the RUA topic: the subscription comes with what the topic keeps.
LEMMA CourseMoved ==
    ASSUME Underway, NEW p \in Parties, RelayTakes(p), Departs
    PROVE  Course'
<1>0. TypeOK /\ RelayType /\ Calls /\ call \in 1 .. MaxCalls
      BY CallRange, TypeParts DEF Underway
<1>1. /\ UNCHANGED <<call, phone, sess, cache, link, ghost, verdicts>>
      /\ link[p] = "up" /\ out[p] # <<>>
      BY RelayKeeps
<1>2. PICK m \in Messages : m = Msg("AKEComplete", "caller")
      BY <1>0, Shapes DEF Kinds
<1>3. PICK n \in Messages : n = Msg("RUARequest", "caller")
      BY <1>0, Shapes DEF Kinds
<1>4. PICK r \in Topics : r = FreshRUA(call)
      BY <1>0, Shapes
<1>5. /\ Msg("AKEComplete", "caller")' = m /\ Msg("RUARequest", "caller")' = n
      /\ FreshRUA(call)' = r
      BY <1>1, <1>2, <1>3, <1>4, SameCall
<1>6. sess'["callee"].asked = call'
      BY <1>1 DEF Departs
<1>7. r # AKETopic /\ r \in Topics
      BY <1>0, <1>4, Shapes
<1>8. n.kind = "RUARequest" /\ n.from = "caller"
      BY <1>3 DEF Msg
<1>9. CallerMoves(r, n) /\ CalleeMoves(r, m)
      BY <1>2, <1>3, <1>4 DEF Departs
<1>10. /\ "caller" \in Parties /\ "callee" \in Parties
       /\ "callee" = Other("caller") /\ "caller" = Other("callee")
       BY OtherParty, Shapes
<1>11. CASE p = "caller"
  <2>1. /\ Stands("caller", "rua", r, AKETopic) /\ out["caller"] = <<Subscribe(r, <<n>>)>>
        /\ inb["caller"] = <<>> /\ log[r] = <<>>
        BY <1>1, <1>9, <1>11 DEF CallerMoves, Holds
  <2>2. Subscribed("caller", "callee", r, <<n>>)
    <3>0. <<n>> \in Seq(Messages)
          BY <1>3
    <3>1. PICK s \in Seq(Messages) : s = <<n>>
          BY <3>0
    <3>2. s # <<>> => s[1].kind \notin {"AKEComplete", "Bye"}
          BY <1>8, <3>1
    <3>3. out["caller"] = <<Subscribe(r, s)>> /\ RelayTakes("caller")
          BY <1>11, <2>1, <3>1
    <3>4. Subscribed("caller", "callee", r, s)
          BY <1>0, <1>7, <1>10, <3>1, <3>2, <3>3, SubscribesTo
    <3> QED
        BY <3>1, <3>4
  <2>3. /\ out'["caller"] = <<>> /\ out'["callee"] = out["callee"]
        /\ at'["caller"] = r /\ at'["callee"] = at["callee"]
        /\ inb'["callee"] = IF at["callee"] = r THEN inb["callee"] \o <<n>> ELSE inb["callee"]
        BY <2>2 DEF Subscribed
  <2>4. inb'["caller"] = <<>> /\ log'[r] = <<n>>
        BY <2>1, <2>2, ReplayNothing, Joins DEF Subscribed
  <2>5. CallerMoves(r, n)'
        BY <1>1, <2>1, <2>3, <2>4 DEF CallerMoves, Stands, Works, Holds
  <2>6. CalleeMoves(r, m)'
    <3>1. CASE /\ Stands("callee", "ake", AKETopic, AKETopic) /\ Holds("callee", <<>>, <<m>>)
          BY <1>1, <1>7, <2>3, <3>1 DEF CalleeMoves, Stands, Works, Holds
    <3>2. CASE /\ Stands("callee", "rua", r, AKETopic)
               /\ Holds("callee", <<Subscribe(r, <<>>)>>, <<>>)
          BY <1>1, <1>7, <2>3, <3>2 DEF CalleeMoves, Stands, Works, Holds, Subscribe
    <3>3. CASE Stands("callee", "rua", r, r) /\ Holds("callee", <<>>, log[r])
      <4>1. inb'["callee"] = <<n>>
            BY <2>1, <2>3, <3>3, Joins DEF Stands, Holds
      <4> QED
          BY <1>1, <2>3, <2>4, <3>3, <4>1 DEF CalleeMoves, Stands, Works, Holds
    <3> QED
        BY <1>9, <3>1, <3>2, <3>3 DEF CalleeMoves
  <2> QED
      BY <1>5, <1>6, <2>5, <2>6 DEF Course, Departs
<1>12. CASE p = "callee"
  <2>1. /\ Stands("callee", "rua", r, AKETopic) /\ out["callee"] = <<Subscribe(r, <<>>)>>
        /\ inb["callee"] = <<>>
        BY <1>1, <1>9, <1>12 DEF CalleeMoves, Holds
  <2>2. Subscribed("callee", "caller", r, <<>>)
    <3>1. PICK s \in Seq(Messages) : s = <<>>
          BY EmptySeq
    <3>2. s # <<>> => s[1].kind \notin {"AKEComplete", "Bye"}
          BY <3>1
    <3>3. out["callee"] = <<Subscribe(r, s)>> /\ RelayTakes("callee")
          BY <1>12, <2>1, <3>1
    <3>4. Subscribed("callee", "caller", r, s)
          BY <1>0, <1>7, <1>10, <3>1, <3>2, <3>3, SubscribesTo
    <3> QED
        BY <3>1, <3>4
  <2>3. log[r] = <<>> \/ log[r] = <<n>>
        BY <1>9 DEF CallerMoves
  <2>4. Replay("callee", r) = log[r]
        BY <1>8, <2>3, ReplayNothing, ReplayOne
  <2>5. /\ out'["callee"] = <<>> /\ out'["caller"] = out["caller"]
        /\ at'["callee"] = r /\ at'["caller"] = at["caller"]
        BY <2>2 DEF Subscribed
  <2>6. inb["caller"] = <<>>
        BY <1>9 DEF CallerMoves, Holds
  <2>7. inb'["caller"] = <<>>
        BY <2>2, <2>6, Joins DEF Subscribed
  <2>8. log'[r] = log[r] /\ inb'["callee"] = log[r]
        BY <2>1, <2>2, <2>3, <2>4, Joins DEF Subscribed
  <2>9. CallerMoves(r, n)'
        BY <1>1, <1>9, <2>5, <2>6, <2>7, <2>8 DEF CallerMoves, Stands, Works, Holds, Subscribe
  <2>10. CalleeMoves(r, m)'
         BY <1>1, <2>1, <2>5, <2>8 DEF CalleeMoves, Stands, Works, Holds
  <2> QED
      BY <1>5, <1>6, <2>9, <2>10 DEF Course, Departs
<1> QED
    BY <1>11, <1>12, OtherParty

\* The RUA response.
LEMMA CourseAnswer ==
    ASSUME Underway, NEW p \in Parties, RelayTakes(p), Ends
    PROVE  Course'
<1>0. TypeOK /\ RelayType /\ Calls /\ call \in 1 .. MaxCalls
      BY CallRange, TypeParts DEF Underway
<1>1. /\ UNCHANGED <<call, phone, sess, cache, link, ghost, verdicts>>
      /\ link[p] = "up" /\ out[p] # <<>>
      BY RelayKeeps
<1>2. PICK m \in Messages : m = Msg("RUAResponse", "callee")
      BY <1>0, Shapes DEF Kinds
<1>3. m.kind = "RUAResponse" /\ Msg("RUAResponse", "callee")' = m
      BY <1>1, <1>2, SameCall DEF Msg
<1>4. PICK t \in Topics : Ending(t, m)
      BY <1>2 DEF Ends
<1>5. /\ p = "callee" /\ Stands("caller", "rua", t, t) /\ Holds("caller", <<>>, <<>>)
      /\ Holds("callee", <<Publish(t, m)>>, <<>>)
      BY <1>1, <1>4, OtherParty DEF Ending, CallerEnds, Holds
<1>6. Sent("callee", "caller", t, m)
  <2>1. /\ "caller" \in Parties /\ "callee" \in Parties /\ "caller" = Other("callee")
        BY OtherParty, Shapes
  <2>2. /\ Head(out["callee"]) = Publish(t, m) /\ RelayTakes("callee") /\ at["callee"] = t
        BY <1>4, <1>5, Queues DEF Holds, Ending, Stands
  <2> QED
      BY <1>0, <1>2, <1>4, <2>1, <2>2, SendsTo
<1>7. /\ out'["callee"] = <<>> /\ out'["caller"] = <<>>
      /\ at'["callee"] = at["callee"] /\ at'["caller"] = at["caller"]
      BY <1>5, <1>6, Queues DEF Sent, Holds
<1>8. inb'["callee"] = <<>> /\ inb'["caller"] = <<m>>
      BY <1>5, <1>6, Joins DEF Sent, Stands, Holds
<1>9. CallerEnds(t, m)'
      BY <1>1, <1>5, <1>7, <1>8 DEF CallerEnds, Stands, Works, Holds
<1>10. Ending(t, m)'
       BY <1>1, <1>4, <1>7, <1>9, SameCall DEF Ending, Stands, Works, Verified
<1> QED
    BY <1>3, <1>4, <1>10 DEF Course, Ends

LEMMA CourseRelayTakes ==
    ASSUME Underway, NEW p \in Parties, RelayTakes(p)
    PROVE  Calls' /\ Course'
<1>1. Calls'
      BY RelayKeeps, CallsStay DEF Underway
<1> QED
    BY <1>1, CourseRequest, CourseAgreed, CourseMoved, CourseAnswer DEF Underway, Course
-----------------------------------------------------------------------------
(* What arrives, and is expected. *)

\* The callee has the first request, AKE complete, or the RUA request on the new topic.
FirstArrives(k, m) ==
    /\ Stands("caller", FirstMode(k), FirstTopic(k), FirstTopic(k)) /\ Holds("caller", <<>>, <<>>)
    /\ Stands("callee", FirstMode(k), FirstTopic(k), FirstTopic(k)) /\ Holds("callee", <<>>, <<m>>)
    /\ log[FreshRUA(call)] = <<>>
CompleteArrives(m) ==
    /\ Stands("callee", "ake", AKETopic, AKETopic) /\ Holds("callee", <<>>, <<m>>)
    /\ Departs
RequestArrives(r, n) ==
    /\ Stands("caller", "rua", r, r) /\ Holds("caller", <<>>, <<>>)
    /\ Stands("callee", "rua", r, r) /\ Holds("callee", <<>>, <<n>>)

LEMMA CalleeHas ==
    ASSUME Underway, inb["callee"] # <<>>
    PROVE  \/ \E k \in 0 .. OldKeys + MaxCalls : FirstArrives(k, Msg(FirstKind(k), "caller"))
           \/ CompleteArrives(Msg("AKEComplete", "caller"))
           \/ RequestArrives(FreshRUA(call), Msg("RUARequest", "caller"))
<1>1. CASE Opens
  <2>1. PICK k \in 0 .. OldKeys + MaxCalls : Opening(k, Msg(FirstKind(k), "caller"))
        BY <1>1 DEF Opens
  <2>2. log[FreshRUA(call)] = <<>>
        BY <1>1 DEF Opens
  <2>3. /\ Stands("callee", FirstMode(k), FirstTopic(k), FirstTopic(k))
        /\ Holds("callee", <<>>, log[FirstTopic(k)]) /\ log[FirstTopic(k)] # <<>>
        BY <2>1 DEF Opening, CalleeOpens, Absent, Holds
  <2>4. /\ Stands("caller", FirstMode(k), FirstTopic(k), FirstTopic(k))
        /\ Holds("caller", <<>>, <<>>) /\ log[FirstTopic(k)] = <<Msg(FirstKind(k), "caller")>>
        BY <2>1, <2>3 DEF Opening, CallerOpens
  <2>5. FirstArrives(k, Msg(FirstKind(k), "caller"))
        BY <2>2, <2>3, <2>4 DEF FirstArrives
  <2> QED
      BY <2>5
<1>2. CASE Agrees
      BY <1>2 DEF Agrees, Answering, Completing, Holds
<1>3. CASE Departs
  <2>1. CASE /\ Stands("callee", "ake", AKETopic, AKETopic)
             /\ Holds("callee", <<>>, <<Msg("AKEComplete", "caller")>>)
        BY <1>3, <2>1 DEF CompleteArrives
  <2>2. CASE /\ Stands("callee", "rua", FreshRUA(call), FreshRUA(call))
             /\ Holds("callee", <<>>, log[FreshRUA(call)])
        BY <1>3, <2>2 DEF Departs, CallerMoves, RequestArrives, Holds
  <2> QED
      BY <1>3, <2>1, <2>2 DEF Departs, CalleeMoves, Holds
<1>4. CASE Ends
      BY <1>4 DEF Ends, Ending, CallerEnds, Holds
<1> QED
    BY <1>1, <1>2, <1>3, <1>4 DEF Underway, Course

\* The caller has the AKE response or the RUA response.
AnswerArrives(m) ==
    /\ Stands("caller", "ake", AKETopic, AKETopic) /\ Stands("callee", "ake", AKETopic, AKETopic)
    /\ Holds("callee", <<>>, <<>>) /\ Holds("caller", <<>>, <<m>>)
    /\ log[FreshRUA(call)] = <<>> /\ sess["callee"].asked = call
VerdictArrives(t, m) ==
    /\ Stands("caller", "rua", t, t) /\ Holds("caller", <<>>, <<m>>)
    /\ Stands("callee", "over", t, t) /\ Holds("callee", <<>>, <<>>) /\ sess["callee"].complete
    /\ Verified("callee") => cache["callee"] = NewKey

LEMMA CallerHas ==
    ASSUME Underway, inb["caller"] # <<>>
    PROVE  \/ AnswerArrives(Msg("AKEResponse", "callee"))
           \/ \E t \in Topics : VerdictArrives(t, Msg("RUAResponse", "callee"))
<1>1. CASE Opens
      BY <1>1 DEF Opens, Opening, CallerOpens, Absent, Holds
<1>2. CASE Agrees
      BY <1>2 DEF Agrees, Answering, Completing, Holds, AnswerArrives
<1>3. CASE Departs
      BY <1>3 DEF Departs, CallerMoves, Holds
<1>4. CASE Ends
      BY <1>4 DEF Ends, Ending, CallerEnds, Holds, VerdictArrives
<1> QED
    BY <1>1, <1>2, <1>3, <1>4 DEF Underway, Course

\* A message with its sender and its call.
LEMMA MsgIs == \A k, p : Msg(k, p).kind = k /\ Msg(k, p).from = p /\ Msg(k, p).call = call
BY DEF Msg

\* Whatever arrives is for a handler, and in the protocol state that expects it.
LEMMA AllExpected ==
    ASSUME Underway, NEW p \in Parties, HasEvent(p)
    PROVE  /\ ForHandler(p) /\ Expected(p, Head(inb[p]))
           /\ p = "callee" => sess[p].state # "complete"
<1> DEFINE m == Head(inb[p])
<1>0. /\ Calls /\ Completed /\ inb[p] # <<>> /\ sess[p].state # "closed"
      BY BeingParts DEF Underway, Calls, HasEvent
<1>1. CASE p = "callee"
  <2>1. CASE \E k \in 0 .. OldKeys + MaxCalls : FirstArrives(k, Msg(FirstKind(k), "caller"))
    <3>1. PICK k \in 0 .. OldKeys + MaxCalls : FirstArrives(k, Msg(FirstKind(k), "caller"))
          BY <2>1
    <3>2. m.kind = FirstKind(k) /\ sess[p].mode = FirstMode(k)
          BY <1>1, <3>1, Queues, MsgIs DEF FirstArrives, Holds, Stands
    <3>3. ~sess["callee"].complete
          BY <1>0, <1>1, <3>2 DEF Completed, FirstMode
    <3> HIDE DEF m
    <3>4. ForHandler(p) /\ Expected(p, m)
          BY <1>0, <1>1, <3>2 DEF ForHandler, Handles, Expected, FirstKind, FirstMode, m
    <3> QED
        BY <1>0, <1>1, <3>3, <3>4 DEF Calls, m
  <2>2. CASE CompleteArrives(Msg("AKEComplete", "caller"))
    <3>1. m.kind = "AKEComplete" /\ m.call = call /\ sess[p].mode = "ake" /\ sess[p].asked = call
          BY <1>1, <2>2, Queues, MsgIs DEF CompleteArrives, Holds, Stands, Departs
    <3>2. ~sess["callee"].complete
          BY <1>0, <1>1, <3>1 DEF Completed
    <3> HIDE DEF m
    <3>3. ForHandler(p) /\ Expected(p, m)
          BY <1>0, <1>1, <3>1 DEF ForHandler, Handles, Expected, m
    <3> QED
        BY <1>0, <1>1, <3>2, <3>3 DEF Calls, m
  <2>3. CASE RequestArrives(FreshRUA(call), Msg("RUARequest", "caller"))
    <3>1. m.kind = "RUARequest" /\ sess[p].mode = "rua"
          BY <1>1, <2>3, Queues, MsgIs DEF RequestArrives, Holds, Stands
    <3>2. ~sess["callee"].complete
          BY <1>0, <1>1, <3>1 DEF Completed
    <3> HIDE DEF m
    <3>3. ForHandler(p) /\ Expected(p, m)
          BY <1>0, <1>1, <3>1 DEF ForHandler, Handles, Expected, m
    <3> QED
        BY <1>0, <1>1, <3>2, <3>3 DEF Calls, m
  <2> QED
      BY <1>0, <1>1, <2>1, <2>2, <2>3, CalleeHas
<1>2. CASE p = "caller"
  <2>1. CASE AnswerArrives(Msg("AKEResponse", "callee"))
    <3>1. m.kind = "AKEResponse" /\ m.call = call /\ sess[p].mode = "ake"
          BY <1>2, <2>1, Queues, MsgIs DEF AnswerArrives, Holds, Stands
    <3> HIDE DEF m
    <3>2. ForHandler(p) /\ Expected(p, m)
          BY <1>0, <1>2, <3>1 DEF ForHandler, Handles, Expected, m
    <3> QED
        BY <1>2, <3>2 DEF m
  <2>2. CASE \E t \in Topics : VerdictArrives(t, Msg("RUAResponse", "callee"))
    <3>1. m.kind = "RUAResponse" /\ m.call = call /\ sess[p].mode = "rua"
          BY <1>2, <2>2, Queues, MsgIs DEF VerdictArrives, Holds, Stands
    <3> HIDE DEF m
    <3>2. ForHandler(p) /\ Expected(p, m)
          BY <1>0, <1>2, <3>1 DEF ForHandler, Handles, Expected, m
    <3> QED
        BY <1>2, <3>2 DEF m
  <2> QED
      BY <1>0, <1>2, <2>1, <2>2, CallerHas
<1> QED
    BY <1>1, <1>2, OtherParty

\* So no message is dropped, a duplicate, or an error.
LEMMA NoDrop == ASSUME Underway, NEW p \in Parties, DropEvent(p) PROVE FALSE
BY AllExpected DEF DropEvent

LEMMA NoDuplicate == ASSUME Underway, DuplicateIgnored PROVE FALSE
BY AllExpected, Shapes DEF DuplicateIgnored, Message

LEMMA FailureDisturbs == ASSUME Underway, NEW p \in Parties, HandlerFails(p) PROVE ~Going'
<1>1. Expected(p, Head(inb[p]))
      BY AllExpected DEF HandlerFails
<1> QED
    BY <1>1 DEF HandlerFails, Fault, Going
-----------------------------------------------------------------------------
(* The handlers. *)

\* A handler of p takes its message, leaves the session s, and sends.
Took(p, q, s, requests) ==
    /\ sess'[p] = s /\ sess'[q] = sess[q]
    /\ out'[p] = out[p] \o requests /\ inb'[p] = Tail(inb[p])
    /\ link'[p] = link[p] /\ at'[p] = at[p]
    /\ log' = log /\ call' = call /\ UNCHANGED ghost
    /\ StaysPut(q)

LEMMA Takes ==
    ASSUME TypeOK, NEW p \in Parties, NEW q \in Parties, q # p, NEW s, NEW requests,
           Set(p, s), Consumed(p), Then(p, requests), Rest
    PROVE  Took(p, q, s, requests)
<1>0. SessType /\ RelayType
      BY TypeParts
<1>1. sess'[p] = s /\ sess'[q] = sess[q]
      BY <1>0 DEF SessType
<1>2. /\ out'[p] = out[p] \o requests /\ out'[q] = out[q]
      /\ inb'[p] = Tail(inb[p]) /\ inb'[q] = inb[q]
      BY <1>0 DEF RelayType
<1>3. StaysPut(q)
      BY <1>1, <1>2 DEF StaysPut, Early, Works
<1> QED
    BY <1>1, <1>2, <1>3 DEF Took

LEMMA Both == /\ "caller" \in Parties /\ "callee" \in Parties /\ "caller" # "callee"
BY Shapes

\* A session keeps what a handler does not change.
LEMMA CallsTook ==
    ASSUME Underway, NEW p \in Parties, NEW q \in Parties, q = Other(p), NEW s, NEW requests,
           Took(p, q, s, requests), UNCHANGED phone,
           s.reg = sess[p].reg, s.state \in {"other", "complete", sess[p].state},
           p = "caller" => s.pc = sess[p].pc,
           p = "callee" => \/ /\ s.pc = sess[p].pc /\ s.complete = sess[p].complete
                              /\ s.state \in {"other", sess[p].state}
                           \/ s.pc = "gate" /\ s.complete = TRUE /\ sip = "ringing"
                              /\ sess[p].pc # "off"
    PROVE  Calls'
<1>0. Calls /\ UNCHANGED <<call, sip, events>>
      BY DEF Underway, Took
<1>1. \A x \in Parties : sess'[x].reg # "ending" /\ sess'[x].state # "closed"
      BY <1>0, OtherParty DEF Calls, Took
<1>2. CASE p = "caller"
  <2>1. sess'["caller"].pc = sess["caller"].pc /\ sess'["callee"] = sess["callee"]
        BY <1>2, OtherParty DEF Took
  <2> QED
      BY <1>0, <1>1, <2>1 DEF Calls
<1>3. CASE p = "callee"
  <2>1. sess'["callee"] = s /\ sess'["caller"] = sess["caller"]
        BY <1>3, OtherParty DEF Took
  <2> QED
      BY <1>0, <1>1, <1>3, <2>1 DEF Calls
<1> QED
    BY <1>2, <1>3, OtherParty

\* The reply to a message of the caller in the callee's name.
LEMMA Replied ==
    ASSUME NEW m \in Messages, NEW kind \in Kinds, NEW answer \in Messages,
           answer.kind = kind, answer.from = "callee", answer.call = m.call
    PROVE  [m EXCEPT !.kind = kind, !.from = "callee"] = answer
<1> DEFINE n == [m EXCEPT !.kind = kind, !.from = "callee"]
<1>1. n \in Messages /\ n.kind = kind /\ n.from = "callee" /\ n.call = m.call
      BY Both DEF Messages
<1> HIDE DEF n
<1>2. \A x, y \in Messages : x.kind = y.kind /\ x.from = y.from /\ x.call = y.call => x = y
      BY DEF Messages
<1>3. n = answer
      BY <1>1, <1>2
<1> QED
    BY <1>3 DEF n

\* MsgAKERequest.
LEMMA CourseAKEResponds == ASSUME Underway, AKEResponds PROVE Calls' /\ Course'
<1> DEFINE s == sess["callee"]
           m == Head(inb["callee"])
           n == [m EXCEPT !.kind = "AKEResponse", !.from = "callee"]
           new == [s EXCEPT !.asked = m.call]
           requests == <<Publish(s.topic, n)>>
<1>0. TypeOK /\ Calls /\ call \in 1 .. MaxCalls /\ s \in SessionType
      BY CallRange, TypeParts, Both DEF Underway, SessType
<1>1. m.kind = "AKERequest" /\ inb["callee"] # <<>> /\ UNCHANGED phone
      BY DEF AKEResponds, Message, HasEvent
<1>2. PICK k \in 0 .. OldKeys + MaxCalls : FirstArrives(k, Msg(FirstKind(k), "caller"))
  <2>1. ~CompleteArrives(Msg("AKEComplete", "caller"))
        BY <1>1, Queues, MsgIs DEF CompleteArrives, Holds
  <2>2. ~RequestArrives(FreshRUA(call), Msg("RUARequest", "caller"))
        BY <1>1, Queues, MsgIs DEF RequestArrives, Holds
  <2> QED
      BY <1>1, <2>1, <2>2, CalleeHas
<1>3. /\ m = Msg(FirstKind(k), "caller") /\ m.call = call
      /\ inb["callee"] = <<m>> /\ out["callee"] = <<>>
      BY <1>2, Queues, MsgIs DEF FirstArrives, Holds
<1>4. FirstTopic(k) = AKETopic /\ FirstMode(k) = "ake"
      BY <1>1, <1>3, MsgIs DEF FirstKind, FirstTopic, FirstMode
<1>5. /\ Stands("caller", "ake", AKETopic, AKETopic) /\ Holds("caller", <<>>, <<>>)
      /\ Stands("callee", "ake", AKETopic, AKETopic) /\ log[FreshRUA(call)] = <<>>
      BY <1>2, <1>4 DEF FirstArrives
<1>6. PICK answer \in Messages : answer = Msg("AKEResponse", "callee")
      BY <1>0, Shapes DEF Kinds
<1>7. n = answer
  <2>1. m \in Messages /\ "AKEResponse" \in Kinds
        BY <1>0, <1>1, Both, HeadIn DEF Underway, Kinds
  <2>2. answer.kind = "AKEResponse" /\ answer.from = "callee" /\ answer.call = m.call
        BY <1>3, <1>6, MsgIs
  <2> HIDE DEF m
  <2> QED
      BY <1>6, <2>1, <2>2, Replied
<1>8. Took("callee", "caller", new, requests)
  <2>1. /\ Set("callee", new) /\ Consumed("callee") /\ Then("callee", requests) /\ Rest
        BY DEF AKEResponds
  <2> QED
      BY <1>0, <2>1, Both, Takes
<1>9. /\ new.mode = s.mode /\ new.topic = s.topic /\ new.pc = s.pc /\ new.asked = call
      /\ new.complete = s.complete /\ new.reg = s.reg /\ new.state = s.state
      BY <1>0, <1>3 DEF SessionType
<1>10. requests = <<Publish(AKETopic, answer)>>
       BY <1>5, <1>7 DEF Stands
<1> HIDE DEF new, requests, n, m
<1>11. Calls'
       BY <1>1, <1>8, <1>9, Both, OtherParty, CallsTook
<1>12. /\ Holds("callee", <<Publish(AKETopic, answer)>>, <<>>)'
       /\ Stands("callee", "ake", AKETopic, AKETopic)'
  <2>1. out'["callee"] = <<Publish(AKETopic, answer)>> /\ inb'["callee"] = <<>>
        BY <1>3, <1>8, <1>10, Queues, Joins DEF Took
  <2> QED
      BY <1>5, <1>8, <1>9, <2>1 DEF Took, Stands, Works, Holds, Publish
<1>13. Stands("caller", "ake", AKETopic, AKETopic)' /\ Holds("caller", <<>>, <<>>)'
       BY <1>5, <1>8, Places DEF Took
<1>14. Answering(answer)'
       BY <1>12, <1>13 DEF Answering
<1>15. call' = call /\ log' = log /\ sess'["callee"].asked = call
       BY <1>8, <1>9 DEF Took
<1> QED
    BY <1>5, <1>6, <1>11, <1>14, <1>15, SameCall DEF Course, Agrees

\* MsgAKEResponse.
LEMMA CourseAKECompletes == ASSUME Underway, AKECompletes PROVE Calls' /\ Course'
<1> DEFINE s == sess["caller"]
           new == [s EXCEPT !.mode = "rua", !.state = "other", !.topic = FreshRUA(call)]
           requests == <<Publish(s.topic, Msg("AKEComplete", "caller")),
                         Subscribe(FreshRUA(call), <<Msg("RUARequest", "caller")>>)>>
<1>0. TypeOK /\ Calls /\ call \in 1 .. MaxCalls /\ s \in SessionType
      BY CallRange, TypeParts, Both DEF Underway, SessType
<1>1. Head(inb["caller"]).kind = "AKEResponse" /\ inb["caller"] # <<>> /\ UNCHANGED phone
      BY DEF AKECompletes, Message, HasEvent
<1>2. AnswerArrives(Msg("AKEResponse", "callee"))
  <2>1. ~\E t \in Topics : VerdictArrives(t, Msg("RUAResponse", "callee"))
        BY <1>1, Queues, MsgIs DEF VerdictArrives, Holds
  <2> QED
      BY <1>1, <2>1, CallerHas
<1>3. PICK done \in Messages : done = Msg("AKEComplete", "caller")
      BY <1>0, Shapes DEF Kinds
<1>4. PICK n \in Messages : n = Msg("RUARequest", "caller")
      BY <1>0, Shapes DEF Kinds
<1>5. PICK r \in Topics : r = FreshRUA(call)
      BY <1>0, Shapes
<1>6. Took("caller", "callee", new, requests)
  <2>1. /\ Set("caller", new) /\ Consumed("caller") /\ Then("caller", requests) /\ Rest
        BY DEF AKECompletes, CompleteOnOldTopic
  <2> QED
      BY <1>0, <2>1, Both, Takes
<1>7. /\ new.mode = "rua" /\ new.topic = r /\ new.pc = s.pc
      /\ new.reg = s.reg /\ new.state = "other"
      BY <1>0, <1>5 DEF SessionType
<1>8. requests = <<Publish(AKETopic, done), Subscribe(r, <<n>>)>>
      BY <1>2, <1>3, <1>4, <1>5 DEF AnswerArrives, Stands
<1> HIDE DEF new, requests
<1>9. Calls'
      BY <1>1, <1>6, <1>7, Both, OtherParty, CallsTook
<1>10. PICK both : both = <<Publish(AKETopic, done), Subscribe(r, <<n>>)>>
       OBVIOUS
<1>11. /\ Holds("caller", both, <<>>)' /\ Stands("caller", "rua", r, AKETopic)'
  <2>1. out'["caller"] = both /\ inb'["caller"] = <<>>
        BY <1>2, <1>6, <1>8, <1>10, Queues, Joins DEF Took, AnswerArrives, Holds
  <2> QED
      BY <1>2, <1>6, <1>7, <2>1 DEF AnswerArrives, Took, Stands, Works, Holds
<1>12. Stands("callee", "ake", AKETopic, AKETopic)' /\ Holds("callee", <<>>, <<>>)'
       BY <1>2, <1>6, Places DEF AnswerArrives, Took
<1>13. Completing(r, done, n)'
       BY <1>10, <1>11, <1>12 DEF Completing, Publish, Subscribe
<1>14. call' = call /\ log' = log /\ sess'["callee"] = sess["callee"]
       BY <1>6 DEF Took
<1> QED
    BY <1>2, <1>3, <1>4, <1>5, <1>9, <1>13, <1>14, SameCall DEF Course, Agrees, AnswerArrives

\* MsgAKEComplete.
LEMMA CourseAKEFinalizes == ASSUME Underway, AKEFinalizes PROVE Calls' /\ Course'
<1> DEFINE s == sess["callee"]
           m == Head(inb["callee"])
           new == [s EXCEPT !.mode = "rua", !.state = "other", !.topic = FreshRUA(m.call)]
           requests == <<Subscribe(FreshRUA(m.call), <<>>)>>
<1>0. TypeOK /\ Calls /\ call \in 1 .. MaxCalls /\ s \in SessionType
      BY CallRange, TypeParts, Both DEF Underway, SessType
<1>1. m.kind = "AKEComplete" /\ inb["callee"] # <<>> /\ UNCHANGED phone
      BY DEF AKEFinalizes, Message, HasEvent
<1>2. CompleteArrives(Msg("AKEComplete", "caller"))
  <2>1. \A k : ~FirstArrives(k, Msg(FirstKind(k), "caller"))
        BY <1>1, Queues, MsgIs DEF FirstArrives, Holds, FirstKind
  <2>2. ~RequestArrives(FreshRUA(call), Msg("RUARequest", "caller"))
        BY <1>1, Queues, MsgIs DEF RequestArrives, Holds
  <2> QED
      BY <1>1, <2>1, <2>2, CalleeHas
<1>3. PICK done \in Messages : done = Msg("AKEComplete", "caller")
      BY <1>0, Shapes DEF Kinds
<1>4. PICK n \in Messages : n = Msg("RUARequest", "caller")
      BY <1>0, Shapes DEF Kinds
<1>5. PICK r \in Topics : r = FreshRUA(call)
      BY <1>0, Shapes
<1>6. Took("callee", "caller", new, requests)
  <2>1. /\ Set("callee", new) /\ Consumed("callee") /\ Then("callee", requests) /\ Rest
        BY DEF AKEFinalizes
  <2> QED
      BY <1>0, <2>1, Both, Takes
<1>7. FreshRUA(m.call) = r /\ inb["callee"] = <<m>> /\ out["callee"] = <<>>
      BY <1>2, <1>5, Queues, MsgIs DEF CompleteArrives, Holds
<1>8. /\ new.mode = "rua" /\ new.topic = r /\ new.pc = s.pc /\ new.asked = s.asked
      /\ new.complete = s.complete /\ new.reg = s.reg /\ new.state = "other"
      BY <1>0, <1>7 DEF SessionType
<1>9. requests = <<Subscribe(r, <<>>)>>
      BY <1>7
<1> HIDE DEF new, requests, m
<1>10. Calls'
       BY <1>1, <1>6, <1>8, Both, OtherParty, CallsTook
<1>11. Holds("callee", <<Subscribe(r, <<>>)>>, <<>>)' /\ Stands("callee", "rua", r, AKETopic)'
  <2>1. out'["callee"] = <<Subscribe(r, <<>>)>> /\ inb'["callee"] = <<>>
        BY <1>6, <1>7, <1>9, Queues, Joins DEF Took
  <2> QED
      BY <1>2, <1>6, <1>8, <2>1 DEF CompleteArrives, Took, Stands, Works, Holds, Subscribe
<1>12. CalleeMoves(r, done)'
       BY <1>11 DEF CalleeMoves
<1>13. CallerMoves(r, n)'
  <2>1. CallerMoves(r, n)
        BY <1>2, <1>4, <1>5 DEF CompleteArrives, Departs
  <2>2. StaysPut("caller") /\ log' = log
        BY <1>6 DEF Took
  <2>3. PICK o : o = <<Subscribe(r, <<n>>)>>
        OBVIOUS
  <2>4. Holds("caller", o, <<>>) => Holds("caller", o, <<>>)'
        BY <2>2, Places
  <2> QED
      BY <2>1, <2>2, <2>3, <2>4, Places DEF CallerMoves, Holds, Subscribe
<1>14. call' = call /\ sess'["callee"].asked = call
       BY <1>2, <1>6, <1>8 DEF Took, CompleteArrives, Departs
<1> QED
    BY <1>3, <1>4, <1>5, <1>10, <1>12, <1>13, <1>14, SameCall DEF Course, Departs
\* What is stored, of a verified peer.
LEMMA Stored ==
    ASSUME ControlType, NEW p \in Parties, NEW q \in Parties, q # p, Store(p)
    PROVE  (Verified(p) => cache'[p] = NewKey) /\ cache'[q] = cache[q]
BY DEF Store, Remember, ControlType

\* MsgRUARequest, on the topic the parties opened on, or the one they moved to.
LEMMA CourseRUAResponds == ASSUME Underway, RUAResponds PROVE Calls' /\ Course'
<1> DEFINE s == sess["callee"]
           m == Head(inb["callee"])
           n == [m EXCEPT !.kind = "RUAResponse", !.from = "callee"]
           new == [s EXCEPT !.mode = "over", !.complete = TRUE, !.state = "complete",
                            !.asked = m.call, !.pc = "gate"]
           requests == <<Publish(s.topic, n)>>
<1>0. /\ TypeOK /\ ControlType /\ Calls /\ Completed /\ Going /\ call \in 1 .. MaxCalls
      /\ s \in SessionType
      BY CallRange, TypeParts, Both, BeingParts DEF Underway, SessType
<1>1. m.kind = "RUARequest" /\ inb["callee"] # <<>> /\ s.pc = "idle" /\ UNCHANGED phone
      BY DEF RUAResponds, Message, HasEvent
<1>2. PICK t \in Topics : /\ Stands("caller", "rua", t, t) /\ Holds("caller", <<>>, <<>>)
                          /\ Stands("callee", "rua", t, t) /\ Holds("callee", <<>>, <<m>>)
                          /\ m.call = call
  <2>1. CASE \E k \in 0 .. OldKeys + MaxCalls : FirstArrives(k, Msg(FirstKind(k), "caller"))
    <3>1. PICK k \in 0 .. OldKeys + MaxCalls : FirstArrives(k, Msg(FirstKind(k), "caller"))
          BY <2>1
    <3>2. m = Msg(FirstKind(k), "caller") /\ m.call = call
          BY <3>1, Queues, MsgIs DEF FirstArrives, Holds
    <3>3. FirstMode(k) = "rua"
          BY <1>1, <3>2, MsgIs DEF FirstKind, FirstMode
    <3>4. FirstTopic(k) \in Topics
          BY <1>0, Firsts
    <3> QED
        BY <3>1, <3>2, <3>3, <3>4 DEF FirstArrives
  <2>2. ~CompleteArrives(Msg("AKEComplete", "caller"))
        BY <1>1, Queues, MsgIs DEF CompleteArrives, Holds
  <2>3. CASE RequestArrives(FreshRUA(call), Msg("RUARequest", "caller"))
    <3>1. m = Msg("RUARequest", "caller") /\ m.call = call
          BY <2>3, Queues, MsgIs DEF RequestArrives, Holds
    <3>2. FreshRUA(call) \in Topics
          BY <1>0, Shapes
    <3> QED
        BY <2>3, <3>1, <3>2 DEF RequestArrives
  <2> QED
      BY <1>1, <2>1, <2>2, <2>3, CalleeHas
<1>3. PICK answer \in Messages : answer = Msg("RUAResponse", "callee")
      BY <1>0, Shapes DEF Kinds
<1>4. n = answer
  <2>1. m \in Messages /\ "RUAResponse" \in Kinds
        BY <1>0, <1>1, Both, HeadIn DEF Underway, Kinds
  <2>2. answer.kind = "RUAResponse" /\ answer.from = "callee" /\ answer.call = m.call
        BY <1>2, <1>3, MsgIs
  <2> HIDE DEF m
  <2> QED
      BY <1>3, <2>1, <2>2, Replied
<1>5. Took("callee", "caller", new, requests)
  <2>1. /\ Set("callee", new) /\ Consumed("callee") /\ Then("callee", requests) /\ Rest
        BY DEF RUAResponds
  <2> QED
      BY <1>0, <2>1, Both, Takes
<1>6. /\ new.mode = "over" /\ new.topic = s.topic /\ new.pc = "gate" /\ new.complete = TRUE
      /\ new.reg = s.reg /\ new.state = "complete"
      BY <1>0 DEF SessionType
<1>7. requests = <<Publish(t, answer)>>
      BY <1>2, <1>4 DEF Stands
<1>8. sip = "ringing"
  <2>1. ~s.complete
        BY <1>0, <1>2 DEF Completed, Stands
  <2> QED
      BY <1>0, <1>1, <2>1 DEF Calls, Going
<1> HIDE DEF new, requests, n, m
<1>9. Calls'
      BY <1>1, <1>5, <1>6, <1>8, Both, OtherParty, CallsTook
<1>10. Holds("callee", <<Publish(t, answer)>>, <<>>)' /\ Stands("callee", "over", t, t)'
  <2>1. out'["callee"] = <<Publish(t, answer)>> /\ inb'["callee"] = <<>>
        BY <1>2, <1>5, <1>7, Queues, Joins DEF Took, Holds
  <2> QED
      BY <1>2, <1>5, <1>6, <2>1 DEF Took, Stands, Works, Holds, Publish
<1>11. Stands("caller", "rua", t, t)' /\ Holds("caller", <<>>, <<>>)'
       BY <1>2, <1>5, Places DEF Took
<1>12. CallerEnds(t, answer)'
       BY <1>10, <1>11 DEF CallerEnds
<1>13. call' = call /\ strangers' = strangers /\ sess'["callee"].complete
       BY <1>5, <1>6 DEF Took
<1>14. Verified("callee")' => cache'["callee"] = NewKey'
  <2>1. Verified("callee") => cache'["callee"] = NewKey
        BY <1>0, Both, Stored DEF RUAResponds
  <2> QED
      BY <1>13, <2>1, SameCall DEF Verified
<1>15. Ending(t, answer)'
       BY <1>10, <1>12, <1>13, <1>14 DEF Ending
<1> QED
    BY <1>2, <1>3, <1>9, <1>13, <1>15, SameCall DEF Course, Ends

\* MsgRUAResponse.
LEMMA CourseRUAFinalizes == ASSUME Underway, RUAFinalizes PROVE Calls' /\ Course'
<1> DEFINE s == sess["caller"]
           new == [s EXCEPT !.mode = "over", !.complete = TRUE, !.state = "complete"]
<1>0. /\ TypeOK /\ ControlType /\ RelayType /\ Calls /\ call \in 1 .. MaxCalls
      /\ s \in SessionType
      BY CallRange, TypeParts, Both, BeingParts DEF Underway, SessType
<1>1. Head(inb["caller"]).kind = "RUAResponse" /\ inb["caller"] # <<>> /\ UNCHANGED phone
      BY DEF RUAFinalizes, Message, HasEvent
<1>2. PICK t \in Topics : VerdictArrives(t, Msg("RUAResponse", "callee"))
  <2>1. ~AnswerArrives(Msg("AKEResponse", "callee"))
        BY <1>1, Queues, MsgIs DEF AnswerArrives, Holds
  <2> QED
      BY <1>1, <2>1, CallerHas
<1>3. PICK answer \in Messages : answer = Msg("RUAResponse", "callee")
      BY <1>0, Shapes DEF Kinds
<1>4. Took("caller", "callee", new, <<>>)
  <2>1. out' = [out EXCEPT !["caller"] = @ \o <<>>]
    <3>1. out["caller"] \o <<>> = out["caller"]
          BY <1>2, Joins DEF VerdictArrives, Holds
    <3> QED
        BY <1>0, <3>1 DEF RUAFinalizes, RelayType
  <2>2. /\ Set("caller", new) /\ Consumed("caller") /\ Then("caller", <<>>) /\ Rest
        BY <2>1 DEF RUAFinalizes
  <2> QED
      BY <1>0, <2>2, Both, Takes
<1>5. /\ new.mode = "over" /\ new.topic = s.topic /\ new.pc = s.pc /\ new.complete = TRUE
      /\ new.reg = s.reg /\ new.state = "complete"
      BY <1>0 DEF SessionType
<1> HIDE DEF new
<1>6. Calls'
      BY <1>1, <1>4, <1>5, Both, OtherParty, CallsTook
<1>7. Holds("caller", <<>>, <<>>)' /\ Stands("caller", "over", t, t)'
  <2>1. out'["caller"] = <<>> /\ inb'["caller"] = <<>>
        BY <1>2, <1>4, Queues, Joins DEF Took, VerdictArrives, Holds
  <2> QED
      BY <1>2, <1>4, <1>5, <2>1 DEF Took, VerdictArrives, Stands, Works, Holds
<1>8. Stands("callee", "over", t, t)' /\ Holds("callee", <<>>, <<>>)'
      BY <1>2, <1>4, Places DEF Took, VerdictArrives
<1>9. /\ call' = call /\ strangers' = strangers /\ sess'["caller"].complete
      /\ sess'["callee"].complete
      BY <1>2, <1>4, <1>5 DEF Took, VerdictArrives
<1>10. /\ Verified("caller")' => cache'["caller"] = NewKey'
       /\ Verified("callee")' => cache'["callee"] = NewKey'
  <2>1. (Verified("caller") => cache'["caller"] = NewKey) /\ cache'["callee"] = cache["callee"]
        BY <1>0, Both, Stored DEF RUAFinalizes
  <2> QED
      BY <1>2, <1>9, <2>1, SameCall DEF Verified, VerdictArrives
<1>11. Ending(t, answer)'
       BY <1>7, <1>8, <1>9, <1>10 DEF Ending, CallerEnds
<1> QED
    BY <1>2, <1>3, <1>6, <1>9, <1>11, SameCall DEF Course, Ends
-----------------------------------------------------------------------------
(* From the INVITE on, and to the end. *)

\* InitiateOutgoingCall: what an undisturbed exchange starts with.
LEMMA CourseDial == ASSUME Being, Dial, Going' PROVE Calls' /\ Course'
<1>0. ControlType /\ SessType /\ RelayType /\ Linked
      BY BeingParts
<1>1. /\ call' = call + 1 /\ sip' = "invited" /\ disturbed' = Inherited
      /\ UNCHANGED <<events, cache, net, faults, strangers>>
      BY DEF Dial
<1>2. \A p \in Parties : /\ link[p] = "off" /\ out[p] = <<>> /\ inb[p] = <<>>
                         /\ at[p] = None /\ events[p] = <<>>
      BY <1>0 DEF Dial, Quiet, Linked
<1>3. cache["caller"] = cache["callee"] /\ \A t \in Topics : log[t] = <<>>
      BY <1>1 DEF Going, Inherited
<1>4. /\ sess'["caller"] = [NoSession EXCEPT !.pc = "starting", !.reg = "yes"]
      /\ sess'["callee"] = NoSession
      BY Both DEF Dial
<1>5. /\ sess'["caller"].pc = "starting" /\ sess'["caller"].reg = "yes"
      /\ sess'["caller"].state = "other"
      /\ sess'["callee"].pc = "off" /\ sess'["callee"].reg = "no"
      /\ sess'["callee"].state = "other" /\ sess'["callee"].complete = FALSE
      BY <1>4 DEF NoSession
<1>6. call' # 0 /\ call' \in 1 .. MaxCalls
      BY <1>0, <1>1 DEF ControlType, Dial
<1>7. Calls'
  <2>1. \A p \in Parties : /\ sess'[p].reg # "ending" /\ sess'[p].state # "closed"
                           /\ events'[p] \in Seq({"established"})
        BY <1>1, <1>2, <1>5, OtherParty, EmptySeq
  <2> QED
      BY <1>1, <1>5, <1>6, <2>1 DEF Calls
<1>8. Absent("caller")' /\ Absent("callee")'
      BY <1>1, <1>2, <1>5, Both DEF Absent, Early, Holds
<1>9. PICK k \in 0 .. OldKeys + MaxCalls : k = cache["caller"]
      BY <1>0, Both DEF ControlType
<1>10. FirstTopic(k) \in Topics
  <2>1. k # 0 => k \in Keys
        BY <1>9 DEF Keys
  <2> QED
      BY <2>1, Shapes DEF FirstTopic
<1>11. FreshRUA(call') \in Topics
       BY <1>6, Shapes
<1>12. CallerOpens(FirstTopic(k), FirstMode(k), Msg(FirstKind(k), "caller"))'
       BY <1>1, <1>3, <1>8, <1>10 DEF CallerOpens
<1>13. Opening(k, Msg(FirstKind(k), "caller"))'
       BY <1>1, <1>3, <1>8, <1>9, <1>12 DEF Opening, CalleeOpens
<1> QED
    BY <1>1, <1>3, <1>7, <1>11, <1>13 DEF Course, Opens

\* An exchange that is undisturbed after a step was so before it, or is new.
LEMMA GoingBefore ==
    ASSUME [Next]_vars, ~Dial, Going'
    PROVE  Going
<1>1. ASSUME disturbed \subseteq disturbed', sip \in {"invited", "ringing", "up"} PROVE Going
      BY <1>1 DEF Going
<1>2. CASE HandleIncomingCall \/ Caller \/ UNCHANGED vars
  <2>1. CASE HandleIncomingCall
        BY <2>1 DEF HandleIncomingCall, Going
  <2>2. CASE CallerStarts
        BY <2>2 DEF CallerStarts, Lookup, Fault, Going
  <2>3. CASE AKECompletes \/ RUAFinalizes
        BY <2>3 DEF AKECompletes, RUAFinalizes, Going
  <2>4. CASE UNCHANGED vars
        BY <2>4 DEF Going
  <2> QED
      BY <1>2, <2>1, <2>2, <2>3, <2>4 DEF Caller
<1>3. CASE Callee
  <2>1. CASE CalleeStarts
        BY <2>1 DEF CalleeStarts, Lookup, Fault, Going
  <2>2. CASE AKEResponds \/ AKEFinalizes \/ RUAResponds \/ DuplicateIgnored
        BY <2>2 DEF AKEResponds, AKEFinalizes, RUAResponds, DuplicateIgnored, Going
  <2>3. CASE Gate
    <3>1. sip' = sip \/ (sip = "ringing" /\ sip' = "up") \/ sip' = "over"
          BY <2>3 DEF Gate, AnswerCall, Accept, RejectOnError, RejectCall, Over
    <3>2. disturbed \subseteq disturbed'
          BY <2>3 DEF Gate, AnswerCall, Fault
    <3> QED
        BY <1>1, <3>1, <3>2 DEF Going
  <2>4. CASE EndReject
        BY <2>4 DEF EndReject, Going
  <2> QED
      BY <1>3, <2>1, <2>2, <2>3, <2>4 DEF Callee
<1>4. CASE UserHangsUp \/ TimerRejects
      BY <1>4, Disturbs, Both
<1>5. ASSUME NEW p \in Parties, RelayTakes(p) \/ Connect(p) \/ Break(p) \/ Lose(p) PROVE Going
  <2>1. CASE RelayTakes(p) \/ Connect(p)
        BY <2>1 DEF RelayTakes, Connect, Going
  <2> QED
      BY <1>5, <2>1, Disturbs
<1>6. ASSUME NEW p \in Parties, EventLoop(p) \/ StartFails(p) \/ Forget(p) PROVE Going
  <2>1. CASE EventLoop(p)
        BY <2>1 DEF EventLoop, HandleEstablished, HandleClosed, EndClosed, Going
  <2> QED
      BY <1>6, <2>1, Disturbs
<1>7. ASSUME NEW p \in Parties, Callback(p) PROVE Going
  <2>1. CASE DropEvent(p)
        BY <2>1 DEF DropEvent, Going
  <2>2. CASE HandlerFails(p)
    <3>1. disturbed \subseteq disturbed'
          BY <2>2 DEF HandlerFails, Fault
    <3>2. sip' = sip \/ sip' = "over"
          BY <2>2 DEF HandlerFails, RejectOnError, RejectCall, Over
    <3> QED
        BY <1>1, <3>1, <3>2 DEF Going
  <2> QED
      BY <1>7, <2>1, <2>2 DEF Callback
<1> QED
    BY <1>2, <1>3, <1>4, <1>5, <1>6, <1>7 DEF Next

LEMMA OnCourseNext == Being /\ OnCourse /\ [Next]_vars => OnCourse'
<1> SUFFICES ASSUME Being, OnCourse, [Next]_vars, Going' PROVE Calls' /\ Course'
    BY DEF OnCourse
<1>1. CASE Dial
      BY <1>1, CourseDial
<1>2. CASE ~Dial
  <2>1. Underway
        BY <1>2, GoingBefore DEF OnCourse, Underway
  <2>2. CASE HandleIncomingCall \/ UserHangsUp \/ TimerRejects
        BY <2>1, <2>2, CourseIncoming, Disturbs, Both
  <2>3. CASE Caller
        BY <2>1, <2>3, CourseCallerStarts, CourseAKECompletes, CourseRUAFinalizes DEF Caller
  <2>4. CASE Callee
        BY <2>1, <2>4, CourseCalleeStarts, CourseAKEResponds, CourseAKEFinalizes,
           CourseRUAResponds, NoDuplicate, CourseGate, NoEndReject DEF Callee
  <2>5. ASSUME NEW p \in Parties, RelayTakes(p) \/ Connect(p) \/ Break(p) \/ Lose(p)
        PROVE  Calls' /\ Course'
        BY <2>1, <2>5, CourseRelayTakes, CourseConnect, Disturbs
  <2>6. ASSUME NEW p \in Parties, Callback(p) \/ EventLoop(p) \/ StartFails(p) \/ Forget(p)
        PROVE  Calls' /\ Course'
        BY <2>1, <2>6, NoDrop, FailureDisturbs, CourseEstablished, NoClosed, NoEndClosed, Disturbs
           DEF Callback, EventLoop
  <2>7. CASE UNCHANGED vars
    <3>1. \A p \in Parties : StaysPut(p)
          BY <2>7 DEF StaysPut, Early, Works
    <3> QED
        BY <2>1, <2>7, <3>1, CallsStay, CourseStays DEF Underway
  <2> QED
      BY <1>2, <2>2, <2>3, <2>4, <2>5, <2>6, <2>7 DEF Next
<1> QED
    BY <1>1, <1>2

\* Only the last stage has nothing on its way and nothing to do.
LEMMA EndIsLast == OnCourse => NeverStuck
<1> SUFFICES ASSUME OnCourse, sip \in {"ringing", "up"}, disturbed = {}, ~Working
             PROVE  /\ sip = "up" /\ \A p \in Parties : sess[p].complete
                    /\ strangers = {} => \A p \in Parties : cache[p] = NewKey
    BY DEF NeverStuck
<1>1. Calls /\ Course
      BY DEF OnCourse, Going
<1>2. \A p \in Parties : /\ sess[p].pc \notin {"starting", "gate"} /\ link[p] # "down"
                         /\ out[p] = <<>> /\ inb[p] = <<>>
      BY DEF Working
<1>3. ~Early("caller") /\ ~Early("callee") /\ sess["callee"].pc = "idle"
      BY <1>1, <1>2, Both DEF Early, Calls
<1>4. ~Opens
  <2> SUFFICES ASSUME NEW k \in 0 .. OldKeys + MaxCalls, Opening(k, Msg(FirstKind(k), "caller"))
               PROVE  FALSE
      BY DEF Opens
  <2>1. log[FirstTopic(k)] # <<>>
        BY <1>2, <1>3, Both, Queues DEF Opening, CallerOpens, Absent, Holds
  <2>2. inb["callee"] = log[FirstTopic(k)]
        BY <1>2, <1>3, Both DEF Opening, CalleeOpens, Absent, Waits, Holds
  <2> QED
      BY <1>2, <2>1, <2>2, Both
<1>5. ~Agrees
      BY <1>2, Both, Queues DEF Agrees, Answering, Completing, Holds
<1>6. ~Departs
  <2> SUFFICES ASSUME Departs PROVE FALSE
      OBVIOUS
  <2>1. log[FreshRUA(call)] # <<>>
        BY <1>2, Both, Queues DEF Departs, CallerMoves, Holds
  <2> QED
      BY <1>2, <2>1, Both, Queues DEF Departs, CalleeMoves, Holds
<1>7. PICK t \in Topics : Ending(t, Msg("RUAResponse", "callee"))
      BY <1>1, <1>4, <1>5, <1>6 DEF Course, Ends
<1>8. /\ sess["caller"].complete /\ sess["callee"].complete
      /\ Verified("caller") => cache["caller"] = NewKey
      /\ Verified("callee") => cache["callee"] = NewKey
      BY <1>2, <1>7, Both, Queues DEF Ending, CallerEnds, Holds
<1>9. sip = "up"
      BY <1>1, <1>3, <1>8 DEF Calls
<1>10. strangers = {} => Verified("caller") /\ Verified("callee")
       BY DEF Verified
<1> QED
    BY <1>8, <1>9, <1>10, OtherParty

\* The order of requests on the two topics, for any number of calls and cached sessions:
\* an exchange that meets no fault, between parties that cached the same session or none,
\* comes to a halt only with the call up, DIA complete on both sides, and the session it
\* made cached by both.
THEOREM ExchangeCompletes == Spec => []NeverStuck
<1>1. Init => OnCourse
      BY DEF Init, OnCourse, Going
<1>2. OnCourse /\ Being /\ [Next]_vars => OnCourse'
      BY OnCourseNext
<1>3. OnCourse => NeverStuck
      BY EndIsLast
<1> QED
    BY <1>1, <1>2, <1>3, BeingAlways, PTL DEF Spec
=============================================================================
