---------------------------- MODULE VertexProofs ----------------------------
(***************************************************************************)
(* What the Vertex client hands out, for any number of callers and any       *)
(* timeouts that VertexAssumption admits: a token in use, and cached content  *)
(* in use, have not expired, and no content is created beside a usable one.  *)
(*                                                                         *)
(* The argument: a call is never older than HttpTimeout (OutInv), so what an  *)
(* answer said on its way is out by at most that (TokenInv, AnswerInv); the   *)
(* margins cover the error.  A flight holds the record still while it lasts  *)
(* (FlightInv).                                                            *)
(***************************************************************************)
EXTENDS VertexClient, TLAPS

OutPcs == {"exchange", "issued", "sent", "served"}

\* An outstanding HTTP call is not older than its timeout.
OutInv ==
    \A c \in Callers : call[c].pc \in OutPcs =>
        call[c].since <= now /\ now <= call[c].since + HttpTimeout

\* The believed expiry is at most one exchange too late.
TokenInv ==
    /\ token.issued >= token.expiry - HttpTimeout
    /\ \A c \in Callers : call[c].pc = "issued" => call[c].token >= call[c].since + TokenLife

\* A content that was created does not expire before the record, or an answer
\* on its way, says so; and the answer's promise was fresh when it was made.
ContentInv ==
    /\ \A n \in Names : contents[n] <= now + TTL
    /\ record.name # 0 => contents[record.name] >= record.expireAt /\ contents[record.name] # 0

AnswerInv ==
    \A c \in Callers : call[c].pc = "served" /\ call[c].op \in {"update", "create"} =>
        /\ call[c].name # 0
        /\ contents[call[c].name] >= call[c].until
        /\ call[c].until >= call[c].since + TTL

\* While a flight lasts the record is neither fresh nor ineligible.
FlightInv == leader # NoOne => ~Settled

VertexInv ==
    /\ TypeOK
    /\ OutInv /\ TokenInv /\ TokenOutlivesExchange
    /\ ContentInv /\ AnswerInv /\ NameOutlivesMargin
    /\ FlightInv

-----------------------------------------------------------------------------
(* Types.                                                                  *)

\* At the start nobody calls.
LEMMA InitTypes == Init => TypeOK
<1> SUFFICES ASSUME Init PROVE TypeOK
  OBVIOUS
<1> USE VertexAssumption
<1>1. below \in BOOLEAN
  BY Zenon DEF Init
<1>2. now \in Nat /\ faults \in 0 .. MaxFaults /\ token \in Token /\ record \in Record
  BY DEF Init, NoToken, Token, NoRecord, Record
<1>3. call \in [Callers -> Call] /\ contents \in [Names -> Nat]
  BY DEF Init, NoCall, Call, Pcs, Ops, Names
<1>4. mutex = NoOne /\ leader = NoOne
  BY DEF Init
<1>5. \A c \in Callers : call[c].pc = "idle" /\ call[c].op = "none"
  BY DEF Init, NoCall
<1> QED
  BY <1>1, <1>2, <1>3, <1>4, <1>5 DEF TypeOK

-----------------------------------------------------------------------------
(* Types are preserved.                                                    *)

\* Both bounds of a content's name, and the constants of Call.
LEMMA NameTypes == 0 \in 0 .. MaxContents /\ Names \subseteq 0 .. MaxContents
  BY VertexAssumption DEF Names

\* A call that is about to generate.
LEMMA GeneratingType ==
    ASSUME now \in Nat, NEW n \in 0 .. MaxContents
    PROVE  /\ Generating(n) \in Call
           /\ Generating(n).pc = "auth" /\ Generating(n).op = "generate"
           /\ Generating(n).name = n /\ Generating(n).at = now
  BY DEF Generating, Call, Pcs, Ops

\* A caller that has not begun.
LEMMA NoCallType == NoCall \in Call /\ NoCall.pc = "idle" /\ NoCall.op = "none" /\ NoCall.name = 0
  BY VertexAssumption DEF NoCall, Call, Pcs, Ops

\* The end of a flight, seen from any caller.
LEMMA LandTypes ==
    ASSUME TypeOK, NEW c \in Callers, leader = c, NEW n \in 0 .. MaxContents, Land(c, n)
    PROVE  /\ call' \in [Callers -> Call]
           /\ leader' = NoOne
           /\ \A d \in Callers :
                \/ call'[d] = Generating(n) /\ (d = c \/ call[d].pc = "wait")
                \/ call'[d] = call[d] /\ d # c /\ call[d].pc # "wait"
<1>1. Generating(n) \in Call
  BY GeneratingType DEF TypeOK
<1> QED
  BY <1>1 DEF Land, TypeOK

\* An error in place of an answer; the mutex is not the caller's any more.
LEMMA ErrsTypes ==
    ASSUME TypeOK, NEW c \in Callers, call[c].pc \in OutPcs, Errs(c)
    PROVE  /\ call' \in [Callers -> Call]
           /\ leader' \in Callers \cup {NoOne}
           /\ \A d \in Callers :
                /\ (call'[d].op = "none") = (call'[d].pc \in {"idle", "lookup", "do", "wait"})
                /\ (leader' = d) = (call'[d].op \in {"count", "update", "create"})
           /\ \A d \in Callers \ {c} : (call'[d].pc \in {"exchange", "issued"}) = (call[d].pc \in {"exchange", "issued"})
           /\ call'[c].pc \notin {"exchange", "issued"}
<1> USE VertexAssumption
<1>1. CASE call[c].op = "update"
  <2>1. call' = [call EXCEPT ![c].pc = "auth", ![c].op = "create", ![c].name = 0] /\ leader' = leader
    BY <1>1 DEF Errs
  <2>2. call' \in [Callers -> Call]
    <3>0. call \in [Callers -> Call] /\ "auth" \in Pcs /\ "create" \in Ops /\ 0 \in 0 .. MaxContents
      BY NameTypes DEF TypeOK, Pcs, Ops
    <3>1. [call EXCEPT ![c].pc = "auth", ![c].op = "create", ![c].name = 0] \in [Callers -> Call]
      BY <3>0 DEF Call
    <3>2. call' = [call EXCEPT ![c].pc = "auth", ![c].op = "create", ![c].name = 0]
      BY <2>1
    <3> QED
      BY <3>1, <3>2, Zenon
  <2>3. \A d \in Callers \ {c} : call'[d] = call[d]
    BY <2>1 DEF TypeOK
  <2>4. call'[c].pc = "auth" /\ call'[c].op = "create"
    BY <2>1 DEF TypeOK, Call
  <2> QED
    BY <1>1, <2>1, <2>2, <2>3, <2>4 DEF TypeOK
<1>2. CASE call[c].op \in {"count", "create"}
  <2>1. Land(c, 0)
    BY <1>2 DEF Errs
  <2>2. leader = c
    BY <1>2 DEF TypeOK
  <2> QED
    BY <2>1, <2>2, LandTypes, GeneratingType DEF TypeOK, OutPcs
<1>3. CASE call[c].op = "generate"
  <2>1. call' = [call EXCEPT ![c] = NoCall] /\ leader' = leader
    BY <1>3 DEF Errs
  <2>2. call' \in [Callers -> Call] /\ call'[c] = NoCall /\ \A d \in Callers \ {c} : call'[d] = call[d]
    BY <2>1, NoCallType DEF TypeOK
  <2> QED
    BY <1>3, <2>1, <2>2, NoCallType DEF TypeOK
<1>4. call[c].op # "none"
  BY DEF TypeOK, OutPcs
<1> QED
  BY <1>1, <1>2, <1>3, <1>4 DEF TypeOK, Call, Ops

\* Every step keeps the types.
LEMMA NextTypes == TypeOK /\ [Next]_vars => TypeOK'
<1> SUFFICES ASSUME TypeOK, [Next]_vars PROVE TypeOK'
  OBVIOUS
<1> USE VertexAssumption
<1>1. ASSUME NEW c \in Callers, GenerateReport(c) PROVE TypeOK'
  BY <1>1 DEF TypeOK, Call, Pcs, Ops, Goto, GenerateReport
<1>2. ASSUME NEW c \in Callers, GenerateTurn(c) PROVE TypeOK'
  BY <1>2 DEF TypeOK, Call, Pcs, Ops, Generating, GenerateTurn
<1>3. ASSUME NEW c \in Callers, lookupCache(c) PROVE TypeOK'
  BY <1>3 DEF TypeOK, Call, Pcs, Ops, Goto, Generating, Settled, Fresh, Outcome, Record, lookupCache
<1>4. ASSUME NEW c \in Callers, Join(c) PROVE TypeOK'
  BY <1>4 DEF TypeOK, Call, Pcs, Ops, Goto, Join
<1>5. ASSUME NEW c \in Callers, Lead(c) PROVE TypeOK'
  BY <1>5 DEF TypeOK, Call, Pcs, Ops, Generating, Settled, Fresh, Outcome, Record, Lead
<1>6. ASSUME NEW c \in Callers, authorizeRequest(c) PROVE TypeOK'
  BY <1>6 DEF TypeOK, Call, Pcs, Ops, Sent, TokenFresh, Token, authorizeRequest
<1>7. ASSUME NEW c \in Callers, IssueToken(c) PROVE TypeOK'
  <2>1. now + TokenLife \in Nat
    BY DEF TypeOK
  <2>2. call' \in [Callers -> Call]
    <3>0. call \in [Callers -> Call] /\ "issued" \in Pcs /\ now + TokenLife \in Nat
      BY <2>1 DEF TypeOK, Pcs
    <3>1. [call EXCEPT ![c].pc = "issued", ![c].token = now + TokenLife] \in [Callers -> Call]
      BY <3>0 DEF Call
    <3>2. call' = [call EXCEPT ![c].pc = "issued", ![c].token = now + TokenLife]
      BY <1>7 DEF IssueToken
    <3> QED
      BY <3>1, <3>2, Zenon
  <2>3. \A d \in Callers : call'[d].op = call[d].op
                          /\ (call'[d].pc = call[d].pc \/ (d = c /\ call'[d].pc = "issued"))
    BY <1>7 DEF TypeOK, Call, IssueToken
  <2> QED
    BY <1>7, <2>2, <2>3 DEF TypeOK, IssueToken
<1>8. ASSUME NEW c \in Callers, exchangeOAuthToken(c) PROVE TypeOK'
  <2>1. token' \in Token
    BY <1>8 DEF TypeOK, Call, Token, exchangeOAuthToken
  <2>2. call' \in [Callers -> Call]
    <3>0. call \in [Callers -> Call] /\ "sent" \in Pcs /\ now \in Nat /\ call[c].token \in Nat
      BY DEF TypeOK, Pcs, Call
    <3>1. [call EXCEPT ![c].pc = "sent", ![c].since = now, ![c].token = call[c].token] \in [Callers -> Call]
      BY <3>0 DEF Call
    <3>2. call' = [call EXCEPT ![c].pc = "sent", ![c].since = now, ![c].token = call[c].token]
      BY <1>8 DEF exchangeOAuthToken, Sent
    <3> QED
      BY <3>1, <3>2, Zenon
  <2>3. \A d \in Callers : call'[d].op = call[d].op
                          /\ (d # c => call'[d] = call[d]) /\ call'[c].pc = "sent"
    BY <1>8 DEF TypeOK, Call, Sent, exchangeOAuthToken
  <2> QED
    BY <1>8, <2>1, <2>2, <2>3 DEF TypeOK, exchangeOAuthToken
<1>9. ASSUME NEW c \in Callers, Serve(c) PROVE TypeOK'
  <2>1. now + TTL \in Nat
    BY DEF TypeOK
  <2>2. "served" \in Pcs /\ call \in [Callers -> Call] /\ call[c] \in Call /\ call[c].name \in 0 .. MaxContents
    BY DEF Pcs, TypeOK, Call
  <2>0. UNCHANGED <<now, token, mutex, record, leader, below, faults>> /\ call[c].pc = "sent"
    BY <1>9 DEF Serve
  <2>3. CASE call[c].op = "create"
    <3>1. PICK n \in Names :
            /\ contents' = [contents EXCEPT ![n] = now + TTL]
            /\ call' = [call EXCEPT ![c].pc = "served", ![c].name = n, ![c].until = now + TTL]
      BY <1>9, <2>3 DEF Serve, Unused
    <3>2. contents' \in [Names -> Nat]
      BY <2>1, <3>1 DEF TypeOK
    <3>3. call' \in [Callers -> Call]
      <4>0. call \in [Callers -> Call] /\ "served" \in Pcs /\ n \in 0 .. MaxContents /\ now + TTL \in Nat
        BY <2>1, NameTypes DEF TypeOK, Pcs
      <4>1. [call EXCEPT ![c].pc = "served", ![c].name = n, ![c].until = now + TTL] \in [Callers -> Call]
        BY <4>0 DEF Call
      <4>2. call' = [call EXCEPT ![c].pc = "served", ![c].name = n, ![c].until = now + TTL]
        BY <3>1
      <4> QED
        BY <4>1, <4>2, Zenon
    <3>4. \A d \in Callers : call'[d].op = call[d].op
                            /\ (d # c => call'[d] = call[d]) /\ call'[c].pc = "served"
      BY <2>2, <3>1 DEF Call
    <3> QED
      BY <2>0, <3>2, <3>3, <3>4 DEF TypeOK
  <2>4. CASE call[c].op = "update"
    <3>1. /\ call[c].name \in Names
          /\ contents' = [contents EXCEPT ![call[c].name] = now + TTL]
          /\ call' = [call EXCEPT ![c].pc = "served", ![c].until = now + TTL]
      BY <1>9, <2>2, <2>4 DEF Serve, Live, Names
    <3>2. contents' \in [Names -> Nat]
      BY <2>1, <3>1 DEF TypeOK
    <3>3. call' \in [Callers -> Call]
      <4>0. call \in [Callers -> Call] /\ "served" \in Pcs /\ now + TTL \in Nat
        BY <2>1 DEF TypeOK, Pcs
      <4>1. [call EXCEPT ![c].pc = "served", ![c].until = now + TTL] \in [Callers -> Call]
        BY <4>0 DEF Call
      <4>2. call' = [call EXCEPT ![c].pc = "served", ![c].until = now + TTL]
        BY <3>1
      <4> QED
        BY <4>1, <4>2, Zenon
    <3>4. \A d \in Callers : call'[d].op = call[d].op
                            /\ (d # c => call'[d] = call[d]) /\ call'[c].pc = "served"
      BY <2>2, <3>1 DEF Call
    <3> QED
      BY <2>0, <3>2, <3>3, <3>4 DEF TypeOK
  <2>5. CASE call[c].op \in {"count", "generate"}
    <3>1. call' = [call EXCEPT ![c].pc = "served"] /\ contents' = contents
      BY <1>9, <2>5 DEF Serve, Goto
    <3>2. call' \in [Callers -> Call]
      BY <3>1 DEF TypeOK, Call, Pcs
    <3>3. \A d \in Callers : call'[d].op = call[d].op
                            /\ (d # c => call'[d] = call[d]) /\ call'[c].pc = "served"
      BY <2>2, <3>1 DEF Call
    <3> QED
      BY <2>0, <3>1, <3>2, <3>3 DEF TypeOK
  <2> QED
    BY <1>9, <2>3, <2>4, <2>5 DEF Serve
<1>10. ASSUME NEW c \in Callers, CountTokensReplies(c) PROVE TypeOK'
  <2>1. leader = c
    BY <1>10 DEF TypeOK, CountTokensReplies
  <2>2. CASE below
    <3>1. record' \in Record
      <4>1. [name |-> 0, expireAt |-> 0, ineligible |-> TRUE] \in Record
        BY NameTypes DEF Record
      <4>2. record' = [name |-> 0, expireAt |-> 0, ineligible |-> TRUE]
        BY <1>10, <2>2 DEF CountTokensReplies
      <4> QED
        BY <4>1, <4>2
    <3>2. Land(c, 0)
      BY <1>10, <2>2 DEF CountTokensReplies
    <3> QED
      BY <1>10, <2>1, <3>1, <3>2, LandTypes, GeneratingType DEF TypeOK, CountTokensReplies
  <2>3. CASE ~below
    <3>1. record' = record /\ leader' = leader
      BY <1>10, <2>3 DEF CountTokensReplies
    <3>2. PICK o \in {"update", "create"} :
            call' = [call EXCEPT ![c].pc = "auth", ![c].name = record.name, ![c].op = o]
      BY <1>10, <2>3 DEF CountTokensReplies
    <3>3. call' \in [Callers -> Call]
      <4>0. call \in [Callers -> Call] /\ "auth" \in Pcs /\ o \in Ops /\ record.name \in 0 .. MaxContents
        BY <3>2 DEF TypeOK, Pcs, Ops, Record
      <4>1. [call EXCEPT ![c].pc = "auth", ![c].name = record.name, ![c].op = o] \in [Callers -> Call]
        BY <4>0 DEF Call
      <4>2. call' = [call EXCEPT ![c].pc = "auth", ![c].name = record.name, ![c].op = o]
        BY <3>2
      <4> QED
        BY <4>1, <4>2, Zenon
    <3>4. \A d \in Callers : (d # c => call'[d] = call[d])
                            /\ call'[c].pc = "auth" /\ call'[c].op \in {"update", "create"}
      BY <3>2 DEF TypeOK, Call
    <3> QED
      BY <1>10, <3>1, <3>3, <3>4 DEF TypeOK, CountTokensReplies
  <2> QED
    BY <2>2, <2>3
<1>11. ASSUME NEW c \in Callers, storeCache(c) PROVE TypeOK'
  BY <1>11 DEF TypeOK, Call, Pcs, Ops, Land, Generating, Record, storeCache
<1>12. ASSUME NEW c \in Callers, GenerateContentReplies(c) PROVE TypeOK'
  BY <1>12 DEF TypeOK, Call, Pcs, Ops, NoCall, GenerateContentReplies
<1>13. ASSUME NEW c \in Callers, parseAPIError(c) PROVE TypeOK'
  <2>1. call[c].pc = "sent" /\ Errs(c)
    BY <1>13 DEF parseAPIError
  <2> QED
    BY <1>13, <2>1, ErrsTypes DEF TypeOK, OutPcs, parseAPIError
<1>14. ASSUME NEW c \in Callers, CallFails(c) PROVE TypeOK'
  <2>1. call[c].pc \in OutPcs /\ Errs(c)
    BY <1>14 DEF CallFails, OutPcs
  <2>2. faults' \in 0 .. MaxFaults /\ mutex' = IF mutex = c THEN NoOne ELSE mutex
    BY <1>14 DEF CallFails, TypeOK
  <2> QED
    BY <1>14, <2>1, <2>2, ErrsTypes DEF TypeOK, CallFails
<1>15. CASE Tick
  BY <1>15 DEF TypeOK, Tick
<1>16. CASE UNCHANGED vars
  BY <1>16 DEF TypeOK, vars
<1> QED
  BY <1>1, <1>2, <1>3, <1>4, <1>5, <1>6, <1>7, <1>8, <1>9, <1>10, <1>11, <1>12, <1>13, <1>14, <1>15, <1>16 DEF Next, CallStep

-----------------------------------------------------------------------------
(* What a step does to a call, and what the invariant needs of it.          *)

\* A call that is not outstanding, and uses no content.
Plain(k) == k.pc \notin OutPcs /\ (k.op = "generate" => k.name = 0)

\* A call that goes on with content it may use for the margin.
Provided(k) ==
    /\ k.pc = "auth" /\ k.op = "generate" /\ k.at = now
    /\ k.name \in Names /\ contents[k.name] > now + CacheMargin

\* A call with nothing to lose, or with a name that lasts.
LEMMA GeneratingKinds ==
    /\ Plain(Generating(0))
    /\ \A n \in Names : contents[n] > now + CacheMargin => Provided(Generating(n))
  BY DEF Plain, Provided, Generating, OutPcs

\* A step of callers who hold no answer.
LEMMA CallFrame ==
    ASSUME VertexInv, TypeOK', UNCHANGED <<now, token, contents>>,
           \A d \in Callers : call'[d] = call[d] \/ Plain(call'[d]) \/ Provided(call'[d])
    PROVE  OutInv' /\ TokenInv' /\ TokenOutlivesExchange' /\ AnswerInv' /\ NameOutlivesMargin'
<1>1. OutInv'
  BY DEF VertexInv, OutInv, Plain, Provided, OutPcs
<1>2. TokenInv'
  BY DEF VertexInv, TokenInv, Plain, Provided, OutPcs
<1>3. TokenOutlivesExchange'
  BY DEF VertexInv, TokenOutlivesExchange, Plain, Provided, OutPcs
<1>4. AnswerInv'
  BY DEF VertexInv, AnswerInv, Plain, Provided, OutPcs
<1>5. NameOutlivesMargin'
  BY DEF VertexInv, NameOutlivesMargin, Plain, Provided
<1> QED
  BY <1>1, <1>2, <1>3, <1>4, <1>5

\* Where the record and the clock stand still, and a flight only begins on a
\* record that is not settled.
LEMMA RecordFrame ==
    ASSUME VertexInv, UNCHANGED <<now, contents, record>>,
           leader' = leader \/ leader' = NoOne \/ ~Settled
    PROVE  ContentInv' /\ FlightInv'
<1>1. ContentInv'
  BY DEF VertexInv, ContentInv
<1>2. FlightInv'
  BY DEF VertexInv, FlightInv, Settled, Fresh
<1> QED
  BY <1>1, <1>2

\* What a settled record hands out.
LEMMA OutcomeKinds ==
    ASSUME VertexInv, Settled
    PROVE  Plain(Generating(Outcome)) \/ Provided(Generating(Outcome))
<1>1. CASE record.ineligible
  BY <1>1, GeneratingKinds DEF Outcome
<1>2. CASE ~record.ineligible
  <2>1. record.name # 0 /\ record.expireAt > now + CacheMargin /\ Outcome = record.name
    BY <1>2 DEF Settled, Fresh, Outcome
  <2>2. record.name \in Names /\ record.expireAt \in Nat /\ now \in Nat
    BY <2>1, VertexAssumption DEF VertexInv, TypeOK, Record, Names
  <2>3. contents[record.name] \in Nat /\ contents[record.name] >= record.expireAt
    BY <2>1, <2>2 DEF VertexInv, TypeOK, ContentInv
  <2> QED
    BY <2>1, <2>2, <2>3, GeneratingKinds, VertexAssumption
<1> QED
  BY <1>1, <1>2

\* A failed call falls back to another or gives up.
LEMMA ErrsKinds ==
    ASSUME VertexInv, NEW c \in Callers, call[c].pc \in OutPcs, Errs(c)
    PROVE  /\ \A d \in Callers : call'[d] = call[d] \/ Plain(call'[d])
           /\ leader' = leader \/ leader' = NoOne
<1> USE DEF VertexInv
<1>1. CASE call[c].op = "update"
  <2>1. call' = [call EXCEPT ![c].pc = "auth", ![c].op = "create", ![c].name = 0] /\ leader' = leader
    BY <1>1 DEF Errs
  <2> QED
    BY <2>1 DEF TypeOK, Call, Plain, OutPcs
<1>2. CASE call[c].op \in {"count", "create"}
  <2>1. leader = c /\ Land(c, 0)
    BY <1>2 DEF TypeOK, Errs
  <2>2. \A d \in Callers : call'[d] = call[d] \/ call'[d] = Generating(0)
    BY <2>1 DEF Land
  <2> QED
    BY <2>1, <2>2, GeneratingKinds DEF Land
<1>3. CASE call[c].op = "generate"
  <2>1. call' = [call EXCEPT ![c] = NoCall] /\ leader' = leader
    BY <1>3 DEF Errs
  <2> QED
    BY <2>1, NoCallType DEF TypeOK, Plain, OutPcs
<1>4. call[c].op # "none"
  BY DEF TypeOK, OutPcs
<1> QED
  BY <1>1, <1>2, <1>3, <1>4 DEF TypeOK, Call, Ops

-----------------------------------------------------------------------------
(* The steps that send, serve and store.                                   *)

\* A caller looks at the token behind the mutex.
LEMMA AuthorizeStep ==
    ASSUME VertexInv, TypeOK', NEW c \in Callers, authorizeRequest(c)
    PROVE  VertexInv'
<1> USE VertexAssumption
<1>1. UNCHANGED <<now, token, record, leader, contents>> /\ call[c].pc = "auth"
  BY DEF authorizeRequest
<1>2. ContentInv' /\ FlightInv'
  BY <1>1, RecordFrame
<1>3. now \in Nat /\ token \in Token /\ call \in [Callers -> Call] /\ call[c] \in Call
  BY DEF VertexInv, TypeOK
<1>4. \A d \in Callers \ {c} : call'[d] = call[d]
  BY <1>3 DEF authorizeRequest, Sent
<1>5. /\ call'[c].op = call[c].op /\ call'[c].name = call[c].name /\ call'[c].at = call[c].at
      /\ call'[c].since = now
      /\ call'[c].pc \in {"sent", "exchange"}
  BY <1>3 DEF authorizeRequest, Sent, Call
<1>6. call'[c].pc = "sent" => call'[c].token > now
  <2>1. CASE TokenFresh
    <3>1. call'[c].token = token.issued
      BY <1>3, <2>1 DEF authorizeRequest, Sent, Call
    <3> QED
      BY <1>3, <2>1, <3>1 DEF TokenFresh, VertexInv, TokenInv, Token
  <2>2. CASE ~TokenFresh
    BY <1>3, <2>2 DEF authorizeRequest, Call
  <2> QED
    BY <2>1, <2>2
<1>7. OutInv'
  BY <1>1, <1>3, <1>4, <1>5 DEF VertexInv, OutInv
<1>8. TokenInv' /\ AnswerInv'
  BY <1>1, <1>4, <1>5 DEF VertexInv, TokenInv, AnswerInv
<1>9. TokenOutlivesExchange'
  BY <1>1, <1>4, <1>6 DEF VertexInv, TokenOutlivesExchange
<1>10. NameOutlivesMargin'
  BY <1>1, <1>4, <1>5 DEF VertexInv, NameOutlivesMargin
<1> QED
  BY <1>2, <1>7, <1>8, <1>9, <1>10 DEF VertexInv

\* Google issues a token.
LEMMA IssueStep ==
    ASSUME VertexInv, TypeOK', NEW c \in Callers, IssueToken(c)
    PROVE  VertexInv'
<1> USE VertexAssumption
<1>1. UNCHANGED <<now, token, record, leader, contents>> /\ call[c].pc = "exchange"
  BY DEF IssueToken
<1>2. ContentInv' /\ FlightInv'
  BY <1>1, RecordFrame
<1>3. now \in Nat /\ call \in [Callers -> Call] /\ call[c] \in Call
  BY DEF VertexInv, TypeOK
<1>4. \A d \in Callers \ {c} : call'[d] = call[d]
  BY <1>3 DEF IssueToken
<1>5. /\ call'[c].op = call[c].op /\ call'[c].name = call[c].name /\ call'[c].at = call[c].at
      /\ call'[c].since = call[c].since
      /\ call'[c].pc = "issued" /\ call'[c].token = now + TokenLife
  BY <1>3 DEF IssueToken, Call
<1>6. OutInv'
  BY <1>1, <1>3, <1>4, <1>5 DEF VertexInv, OutInv, OutPcs
<1>7. TokenInv'
  <2>1. call[c].since <= now /\ call[c].since \in Nat
    BY <1>1, <1>3 DEF VertexInv, OutInv, OutPcs, Call
  <2> QED
    BY <1>1, <1>3, <1>4, <1>5, <2>1 DEF VertexInv, TokenInv
<1>8. AnswerInv' /\ TokenOutlivesExchange'
  BY <1>1, <1>4, <1>5 DEF VertexInv, AnswerInv, TokenOutlivesExchange
<1>9. NameOutlivesMargin'
  BY <1>1, <1>4, <1>5 DEF VertexInv, NameOutlivesMargin
<1> QED
  BY <1>2, <1>6, <1>7, <1>8, <1>9 DEF VertexInv

\* The reckoned expiry is late by the age of the exchange, and a token outlives
\* the exchange that brought it.
LEMMA ExchangeStep ==
    ASSUME VertexInv, TypeOK', NEW c \in Callers, exchangeOAuthToken(c)
    PROVE  VertexInv'
<1> USE VertexAssumption
<1>1. UNCHANGED <<now, record, leader, contents>> /\ call[c].pc = "issued"
  BY DEF exchangeOAuthToken
<1>2. ContentInv' /\ FlightInv'
  BY <1>1, RecordFrame
<1>3. now \in Nat /\ call \in [Callers -> Call] /\ call[c] \in Call
  BY DEF VertexInv, TypeOK
<1>4. \A d \in Callers \ {c} : call'[d] = call[d]
  BY <1>3 DEF exchangeOAuthToken, Sent
<1>5. /\ call'[c].op = call[c].op /\ call'[c].name = call[c].name /\ call'[c].at = call[c].at
      /\ call'[c].since = now
      /\ call'[c].pc = "sent" /\ call'[c].token = call[c].token
  BY <1>3 DEF exchangeOAuthToken, Sent, Call
<1>6. token' = [expiry |-> now + TokenLife, issued |-> call[c].token]
  BY DEF exchangeOAuthToken
<1>7. /\ call[c].token \in Nat /\ call[c].since \in Nat
      /\ call[c].token >= call[c].since + TokenLife /\ now <= call[c].since + HttpTimeout
  BY <1>1, <1>3 DEF VertexInv, TokenInv, OutInv, OutPcs, Call
<1>8. OutInv'
  BY <1>1, <1>3, <1>4, <1>5 DEF VertexInv, OutInv, OutPcs
<1>9. TokenInv'
  <2>1. token'.issued >= token'.expiry - HttpTimeout
    BY <1>3, <1>6, <1>7
  <2> QED
    BY <1>4, <1>5, <2>1 DEF VertexInv, TokenInv
<1>10. AnswerInv'
  BY <1>1, <1>4, <1>5 DEF VertexInv, AnswerInv
<1>11. TokenOutlivesExchange'
  <2>1. call'[c].token > now
    BY <1>3, <1>5, <1>7
  <2> QED
    BY <1>1, <1>4, <2>1 DEF VertexInv, TokenOutlivesExchange
<1>12. NameOutlivesMargin'
  BY <1>1, <1>4, <1>5 DEF VertexInv, NameOutlivesMargin
<1> QED
  BY <1>2, <1>8, <1>9, <1>10, <1>11, <1>12 DEF VertexInv

\* Contents only gain time; an answer on its way names one that lasts.
LEMMA ServeStep ==
    ASSUME VertexInv, TypeOK', NEW c \in Callers, Serve(c)
    PROVE  VertexInv'
<1> USE VertexAssumption
<1>1. UNCHANGED <<now, token, record, leader>> /\ call[c].pc = "sent"
  BY DEF Serve
<1>2. now \in Nat /\ call \in [Callers -> Call] /\ call[c] \in Call /\ contents \in [Names -> Nat]
  BY DEF VertexInv, TypeOK
<1>3. \A d \in Callers \ {c} : call'[d] = call[d]
  BY <1>2 DEF Serve, Goto
<1>4. /\ call'[c].op = call[c].op /\ call'[c].at = call[c].at
      /\ call'[c].since = call[c].since /\ call'[c].pc = "served"
  <2>1. CASE call[c].op = "create"
    <3>1. PICK n \in Names : call' = [call EXCEPT ![c].pc = "served", ![c].name = n, ![c].until = now + TTL]
      BY <2>1 DEF Serve, Unused
    <3> QED
      BY <1>1, <1>2, <3>1 DEF Call
  <2>2. CASE call[c].op = "update"
    BY <1>2, <2>2 DEF Serve, Call
  <2>3. CASE call[c].op \notin {"create", "update"}
    BY <1>2, <2>3 DEF Serve, Goto, Call
  <2> QED
    BY <2>1, <2>2, <2>3
<1>5. \A n \in Names : contents'[n] \in Nat /\ contents[n] <= contents'[n] /\ contents'[n] <= now + TTL
  <2>1. now + TTL \in Nat /\ \A n \in Names : contents[n] \in Nat /\ contents[n] <= now + TTL
    BY <1>2 DEF VertexInv, ContentInv
  <2>2. UNCHANGED contents \/ \E n : contents' = [contents EXCEPT ![n] = now + TTL]
    BY DEF Serve, Unused
  <2>3. CASE UNCHANGED contents
    BY <2>1, <2>3
  <2>4. ASSUME NEW m, contents' = [contents EXCEPT ![m] = now + TTL]
        PROVE  \A n \in Names : contents'[n] = contents[n] \/ contents'[n] = now + TTL
    BY <1>2, <2>4
  <2> QED
    BY <2>1, <2>2, <2>3, <2>4
<1>6. call[c].op = "generate" => call'[c].name = call[c].name
  BY <1>2 DEF Serve, Goto, Call
<1>7. call[c].op \in {"update", "create"} =>
        /\ call'[c].name \in Names /\ call'[c].name # 0
        /\ contents'[call'[c].name] = now + TTL /\ call'[c].until = now + TTL
  <2>1. CASE call[c].op = "create"
    <3>1. PICK n \in Names :
            /\ contents' = [contents EXCEPT ![n] = now + TTL]
            /\ call' = [call EXCEPT ![c].pc = "served", ![c].name = n, ![c].until = now + TTL]
      BY <2>1 DEF Serve, Unused
    <3>2. call'[c].name = n /\ call'[c].until = now + TTL
      BY <1>2, <3>1 DEF Call
    <3> QED
      BY <1>2, <3>1, <3>2 DEF Names
  <2>2. CASE call[c].op = "update"
    <3>1. /\ call[c].name # 0
          /\ contents' = [contents EXCEPT ![call[c].name] = now + TTL]
          /\ call' = [call EXCEPT ![c].pc = "served", ![c].until = now + TTL]
      BY <2>2 DEF Serve, Live
    <3>2. call'[c].name = call[c].name /\ call'[c].until = now + TTL
      BY <1>2, <3>1 DEF Call
    <3>3. call[c].name \in Names
      BY <1>2, <3>1 DEF Call, Names
    <3> QED
      BY <1>2, <3>1, <3>2, <3>3
  <2> QED
    BY <2>1, <2>2
<1>8. OutInv' /\ TokenInv' /\ TokenOutlivesExchange'
  BY <1>1, <1>3, <1>4 DEF VertexInv, OutInv, OutPcs, TokenInv, TokenOutlivesExchange
<1>9. ContentInv'
  <2>1. record.name # 0 => record.name \in Names /\ record.expireAt \in Nat
    BY DEF VertexInv, TypeOK, Record, Names
  <2> QED
    BY <1>1, <1>2, <1>5, <2>1 DEF VertexInv, ContentInv
<1>10. AnswerInv'
  <2>1. ASSUME NEW d \in Callers \ {c}, call[d].pc = "served", call[d].op \in {"update", "create"}
        PROVE  /\ call[d].name # 0
               /\ contents'[call[d].name] >= call[d].until
               /\ call[d].until >= call[d].since + TTL
    <3>1. call[d].name \in Names /\ call[d].until \in Nat
      BY <1>2, <2>1 DEF VertexInv, AnswerInv, Call, Names
    <3> QED
      BY <1>2, <1>5, <2>1, <3>1 DEF VertexInv, AnswerInv
  <2>2. call[c].since \in Nat /\ call[c].since <= now
    BY <1>1, <1>2 DEF VertexInv, OutInv, OutPcs, Call
  <2> QED
    BY <1>2, <1>3, <1>4, <1>7, <2>1, <2>2 DEF AnswerInv
<1>11. NameOutlivesMargin'
  <2>1. ASSUME NEW d \in Callers, call[d].op = "generate", call[d].name # 0
        PROVE  contents'[call[d].name] > call[d].at + CacheMargin
    <3>1. call[d].name \in Names /\ call[d].at \in Nat
      BY <1>2, <2>1 DEF Call, Names
    <3> QED
      BY <1>2, <1>5, <2>1, <3>1 DEF VertexInv, NameOutlivesMargin
  <2> QED
    BY <1>3, <1>4, <1>6, <2>1 DEF NameOutlivesMargin
<1>12. FlightInv'
  BY <1>1 DEF VertexInv, FlightInv, Settled, Fresh
<1> QED
  BY <1>8, <1>9, <1>10, <1>11, <1>12 DEF VertexInv

\* The end of a flight that created or extended content.
LEMMA StoreStep ==
    ASSUME VertexInv, TypeOK', NEW c \in Callers, storeCache(c)
    PROVE  VertexInv'
<1> USE VertexAssumption
<1> DEFINE n == call[c].name
<1>1. UNCHANGED <<now, token, contents>> /\ Land(c, n)
  BY DEF storeCache
<1>2. /\ n \in Names /\ now \in Nat /\ contents[n] \in Nat
      /\ call[c].since \in Nat /\ call[c].until \in Nat
  <2>1. call[c] \in Call /\ now \in Nat /\ contents \in [Names -> Nat]
    BY DEF VertexInv, TypeOK
  <2>2. n # 0
    BY DEF storeCache, VertexInv, AnswerInv
  <2>3. n \in Names
    BY <2>1, <2>2 DEF Call, Names
  <2> QED
    BY <2>1, <2>3 DEF Call
<1>3. /\ contents[n] >= call[c].until /\ call[c].until >= call[c].since + TTL
      /\ now <= call[c].since + HttpTimeout
  BY DEF storeCache, VertexInv, AnswerInv, OutInv, OutPcs
<1>4. contents[n] > now + CacheMargin /\ contents[n] # 0
  BY <1>2, <1>3
<1>5. \A d \in Callers : call'[d] = call[d] \/ Provided(call'[d])
  BY <1>1, <1>2, <1>4, GeneratingKinds DEF Land
<1>6. ContentInv'
  <2>1. record'.name = n /\ record'.expireAt = call[c].until
    BY DEF storeCache
  <2> QED
    BY <1>1, <1>3, <1>4, <2>1 DEF VertexInv, ContentInv
<1>7. FlightInv'
  BY <1>1 DEF FlightInv, Land
<1> QED
  BY <1>1, <1>5, <1>6, <1>7, CallFrame DEF VertexInv

\* The prompt's tokens are counted, and content is created or not.
LEMMA CountStep ==
    ASSUME VertexInv, TypeOK', NEW c \in Callers, CountTokensReplies(c)
    PROVE  VertexInv'
<1>1. UNCHANGED <<now, token, contents>>
  BY DEF CountTokensReplies
<1>2. CASE below
  <2>1. Land(c, 0) /\ record'.name = 0
    BY <1>2 DEF CountTokensReplies
  <2>2. \A d \in Callers : call'[d] = call[d] \/ Plain(call'[d])
    BY <2>1, GeneratingKinds DEF Land
  <2>3. ContentInv' /\ FlightInv'
    BY <1>1, <2>1 DEF VertexInv, ContentInv, FlightInv, Land
  <2> QED
    BY <1>1, <2>2, <2>3, CallFrame DEF VertexInv
<1>3. CASE ~below
  <2>1. UNCHANGED <<record, leader>>
    BY <1>3 DEF CountTokensReplies
  <2>2. PICK o \in {"update", "create"} :
          call' = [call EXCEPT ![c].pc = "auth", ![c].name = record.name, ![c].op = o]
    BY <1>3 DEF CountTokensReplies
  <2>3. \A d \in Callers : call'[d] = call[d] \/ Plain(call'[d])
    BY <2>2 DEF VertexInv, TypeOK, Call, Plain, OutPcs
  <2> QED
    BY <1>1, <2>1, <2>3, CallFrame, RecordFrame DEF VertexInv
<1> QED
  BY <1>2, <1>3

\* Time: an outstanding call is not left behind, and nothing becomes fresh.
LEMMA TickStep ==
    ASSUME VertexInv, TypeOK', Tick
    PROVE  VertexInv'
<1> USE VertexAssumption
<1>1. now' = now + 1 /\ now \in Nat /\ UNCHANGED <<token, mutex, record, leader, call, contents>>
  BY DEF Tick, VertexInv, TypeOK
<1>2. OutInv'
  <2>1. \A d \in Callers : call[d].pc \in OutPcs => now < call[d].since + HttpTimeout /\ call[d].since \in Nat
    BY DEF Tick, OutPcs, VertexInv, TypeOK, Call
  <2> QED
    BY <1>1, <2>1 DEF VertexInv, OutInv
<1>3. TokenInv' /\ AnswerInv' /\ NameOutlivesMargin'
  BY <1>1 DEF VertexInv, TokenInv, AnswerInv, NameOutlivesMargin
<1>4. TokenOutlivesExchange'
  <2>1. \A d \in Callers : call[d].pc = "sent" => call[d].since <= now /\ call[d].since \in Nat
    BY DEF VertexInv, OutInv, OutPcs, TypeOK, Call
  <2> QED
    BY <1>1, <2>1 DEF TokenOutlivesExchange
<1>5. ContentInv'
  <2>1. \A m \in Names : contents[m] \in Nat
    BY DEF VertexInv, TypeOK
  <2> QED
    BY <1>1, <2>1 DEF VertexInv, ContentInv
<1>6. FlightInv'
  <2>1. record.expireAt \in Nat
    BY DEF VertexInv, TypeOK, Record
  <2> QED
    BY <1>1, <2>1 DEF VertexInv, FlightInv, Settled, Fresh
<1> QED
  BY <1>2, <1>3, <1>4, <1>5, <1>6 DEF VertexInv

-----------------------------------------------------------------------------
(* The invariant.                                                          *)

\* A client that knows nothing.
LEMMA InitVertexInv == Init => VertexInv
<1> SUFFICES ASSUME Init PROVE VertexInv
  OBVIOUS
<1> USE VertexAssumption
<1>1. \A d \in Callers : call[d] = NoCall
  BY DEF Init
<1>2. OutInv /\ TokenInv /\ TokenOutlivesExchange /\ AnswerInv /\ NameOutlivesMargin
  BY <1>1 DEF Init, NoCall, NoToken, OutInv, OutPcs, TokenInv, TokenOutlivesExchange, AnswerInv, NameOutlivesMargin
<1>3. ContentInv /\ FlightInv
  BY DEF Init, NoRecord, ContentInv, FlightInv
<1> QED
  BY <1>2, <1>3, InitTypes DEF VertexInv

\* Every step keeps the bounds.
LEMMA NextVertexInv == VertexInv /\ [Next]_vars => VertexInv'
<1> SUFFICES ASSUME VertexInv, [Next]_vars PROVE VertexInv'
  OBVIOUS
<1>1. TypeOK'
  BY NextTypes DEF VertexInv
<1>2. call \in [Callers -> Call]
  BY DEF VertexInv, TypeOK
<1>3. ASSUME NEW c \in Callers, GenerateReport(c) \/ Join(c) PROVE VertexInv'
  <2>1. UNCHANGED <<now, token, record, leader, contents>>
    BY <1>3 DEF GenerateReport, Join
  <2>2. \A d \in Callers : call'[d] = call[d] \/ Plain(call'[d])
    <3>1. call[c].op = "none"
      BY <1>3 DEF VertexInv, TypeOK, GenerateReport, Join
    <3> QED
      BY <1>2, <1>3, <3>1 DEF GenerateReport, Join, Goto, Plain, OutPcs, Call
  <2> QED
    BY <1>1, <2>1, <2>2, CallFrame, RecordFrame DEF VertexInv
<1>4. ASSUME NEW c \in Callers, GenerateTurn(c) PROVE VertexInv'
  <2>1. UNCHANGED <<now, token, record, leader, contents>>
    BY <1>4 DEF GenerateTurn
  <2>2. \A d \in Callers : call'[d] = call[d] \/ Plain(call'[d])
    BY <1>2, <1>4, GeneratingKinds DEF GenerateTurn
  <2> QED
    BY <1>1, <2>1, <2>2, CallFrame, RecordFrame DEF VertexInv
<1>5. ASSUME NEW c \in Callers, lookupCache(c) \/ Lead(c), Settled PROVE VertexInv'
  <2>1. UNCHANGED <<now, token, record, leader, contents>> /\ call' = [call EXCEPT ![c] = Generating(Outcome)]
    BY <1>5 DEF lookupCache, Lead
  <2>2. \A d \in Callers : call'[d] = call[d] \/ Plain(call'[d]) \/ Provided(call'[d])
    BY <1>2, <1>5, <2>1, OutcomeKinds
  <2> QED
    BY <1>1, <2>1, <2>2, CallFrame, RecordFrame DEF VertexInv
<1>6. ASSUME NEW c \in Callers, lookupCache(c) \/ Lead(c), ~Settled PROVE VertexInv'
  <2>1. UNCHANGED <<now, token, record, contents>>
    BY <1>6 DEF lookupCache, Lead
  <2>2. \A d \in Callers : call'[d] = call[d] \/ Plain(call'[d])
    <3>1. call[c].op = "none"
      BY <1>6 DEF VertexInv, TypeOK, lookupCache, Lead
    <3>2. CASE lookupCache(c)
      BY <1>2, <1>6, <3>1, <3>2 DEF lookupCache, Goto, Plain, OutPcs, Call
    <3>3. CASE Lead(c)
      BY <1>2, <1>6, <3>3 DEF Lead, Plain, OutPcs, Call
    <3> QED
      BY <1>6, <3>2, <3>3
  <2> QED
    BY <1>1, <1>6, <2>1, <2>2, CallFrame, RecordFrame DEF VertexInv
<1>7. ASSUME NEW c \in Callers, GenerateContentReplies(c) PROVE VertexInv'
  <2>1. UNCHANGED <<now, token, record, leader, contents>> /\ call' = [call EXCEPT ![c] = NoCall]
    BY <1>7 DEF GenerateContentReplies
  <2>2. \A d \in Callers : call'[d] = call[d] \/ Plain(call'[d])
    BY <1>2, <2>1, NoCallType DEF Plain, OutPcs
  <2> QED
    BY <1>1, <2>1, <2>2, CallFrame, RecordFrame DEF VertexInv
<1>8. ASSUME NEW c \in Callers, parseAPIError(c) \/ CallFails(c) PROVE VertexInv'
  <2>1. call[c].pc \in OutPcs /\ Errs(c) /\ UNCHANGED <<now, token, record, contents>>
    BY <1>8 DEF parseAPIError, CallFails, OutPcs
  <2>2. \A d \in Callers : call'[d] = call[d] \/ Plain(call'[d])
    BY <2>1, ErrsKinds
  <2>3. leader' = leader \/ leader' = NoOne
    BY <2>1, ErrsKinds
  <2> QED
    BY <1>1, <2>1, <2>2, <2>3, CallFrame, RecordFrame DEF VertexInv
<1>9. CASE UNCHANGED vars
  <2>1. UNCHANGED <<now, token, record, leader, call, contents>>
    BY <1>9 DEF vars
  <2> QED
    BY <1>1, <2>1, CallFrame, RecordFrame DEF VertexInv
<1> QED
  BY <1>1, <1>3, <1>4, <1>5, <1>6, <1>7, <1>8, <1>9, AuthorizeStep, IssueStep, ExchangeStep,
     ServeStep, StoreStep, CountStep, TickStep
     DEF Next, CallStep

\* The invariant of the Vertex client, for any number of callers and contents.
THEOREM VertexInductive == Spec => []VertexInv
<1>1. Init => VertexInv
  BY InitVertexInv
<1>2. VertexInv /\ [Next]_vars => VertexInv'
  BY NextVertexInv
<1> QED
  BY <1>1, <1>2, PTL DEF Spec

\* The types, and who holds the mutex and leads the flight (Token, group.Do).
THEOREM VertexTypes == Spec => []TypeOK
<1>1. VertexInv => TypeOK
  BY DEF VertexInv
<1> QED
  BY <1>1, VertexInductive, PTL

\* No request is sent with an expired token, however long the exchange took.
THEOREM TokensAreAlive == Spec => []TokenOutlivesExchange
<1>1. VertexInv => TokenOutlivesExchange
  BY DEF VertexInv
<1> QED
  BY <1>1, VertexInductive, PTL

\* Cached content is handed out with the whole margin left (EnsureCachedContent).
THEOREM NamesAreAlive == Spec => []NameOutlivesMargin
<1>1. VertexInv => NameOutlivesMargin
  BY DEF VertexInv
<1> QED
  BY <1>1, VertexInductive, PTL

\* Content is created by a flight that found the record stale.
LEMMA CreationIsLed ==
    VertexInv /\ [Next]_vars => [\A n \in Names : contents[n] = 0 /\ contents'[n] # 0 => ~Settled]_vars
<1> SUFFICES ASSUME VertexInv, [Next]_vars, NEW n \in Names, contents[n] = 0, contents'[n] # 0
             PROVE  ~Settled
  OBVIOUS
<1>1. PICK c \in Callers : Serve(c)
  BY DEF Next, CallStep, GenerateReport, GenerateTurn, lookupCache, Join, Lead, authorizeRequest,
         IssueToken, exchangeOAuthToken, CountTokensReplies, storeCache, GenerateContentReplies,
         parseAPIError, CallFails, Tick, vars
<1>2. call[c].op = "create"
  <2>1. contents \in [Names -> Nat] /\ now \in Nat
    BY DEF VertexInv, TypeOK
  <2>2. call[c].op # "create" =>
          \/ UNCHANGED contents
          \/ contents[call[c].name] > now /\ contents' = [contents EXCEPT ![call[c].name] = now + TTL]
    BY <1>1 DEF Serve, Live
  <2> QED
    BY <2>1, <2>2
<1>3. leader = c /\ leader # NoOne
  BY <1>2, VertexAssumption DEF VertexInv, TypeOK
<1> QED
  BY <1>3 DEF VertexInv, FlightInv

\* No content is created beside one that the record still offers: the leader of
\* a flight looked at the record, and nobody else writes it (singleflight).
THEOREM CreationWhenStale == Spec => CreateOnlyWhenStale
<1>1. VertexInv /\ [Next]_vars => [\A n \in Names : contents[n] = 0 /\ contents'[n] # 0 => ~Settled]_vars
  BY CreationIsLed
<1> QED
  BY <1>1, VertexInductive, PTL DEF Spec, CreateOnlyWhenStale

=============================================================================
