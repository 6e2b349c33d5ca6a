---------------------------- MODULE AccessProofs ----------------------------
(***************************************************************************)
(* Proofs about who may play: tickets into the game, accounts, the rules   *)
(* of builds and the machines of banned players, for any players, any      *)
(* number of calls at the same time and any lifetimes.                     *)
(***************************************************************************)
EXTENDS Tickets, Accounts, AccessRules, Machines, FiniteSetTheorems, WellFoundedInduction, TLAPS

-----------------------------------------------------------------------------
(* A nonempty set of natural numbers has a least element, which is Min.    *)
LEMMA MinIs ==
  ASSUME NEW S, S \subseteq Nat, S # {}
  PROVE  Min(S) \in S /\ \A y \in S : Min(S) <= y
<1> DEFINE R == OpToRel(<, Nat)
<1>1. R = {ss \in Nat \X Nat : ss[1] < ss[2]}
  BY DEF OpToRel
<1>2. IsWellFoundedOn(R, Nat)
  BY NatLessThanWellFounded
<1> HIDE DEF R
<1>3. PICK x \in S : \A y \in S : ~(<<y, x>> \in R)
  BY <1>2, WFMin
<1>4. \A y \in S : x <= y
  <2> SUFFICES ASSUME NEW y \in S, y < x PROVE FALSE
    OBVIOUS
  <2> DEFINE p == <<y, x>>
  <2>1. p \in Nat \X Nat /\ p[1] < p[2]
    OBVIOUS
  <2> HIDE DEF p
  <2>2. p \in R
    BY <1>1, <2>1
  <2> QED
    BY <1>3, <2>2 DEF p
<1> QED
  BY <1>4 DEF Min

-----------------------------------------------------------------------------
(***************************************************************************)
(* Tickets.  A nonce is at any moment in one place: in the map, with one   *)
(* request, or behind one ticket; wherever it is, the moment it was taken  *)
(* fits the moment it was drawn.                                           *)
(***************************************************************************)
Traced(x) ==
  /\ x.nonce \in 1 .. nonces
  /\ x.taken < nonceAt[x.nonce] + ChallengeTTL
  /\ x.nonce \notin DOMAIN challenges

HoldsNonce(r) == r.at \in {"resolve", "issue"}

EntryOK(e) == e.ticket \in tickets /\ e.ticket.user = e.user /\ e.now <= e.ticket.expires

ReportOK(r) ==
  /\ HoldsNonce(r) => Traced(r) /\ \A t \in tickets : t.nonce # r.nonce
  /\ r.at = "bans" => EntryOK(r)

NoncesOK ==
  /\ ticketClock \in Nat
  /\ nonces \in Nat
  /\ nonceAt \in Seq(Nat) /\ Len(nonceAt) = nonces
  /\ DOMAIN challenges \subseteq 1 .. nonces
  /\ \A n \in DOMAIN challenges : challenges[n] = nonceAt[n] + ChallengeTTL
  /\ Cardinality(DOMAIN challenges) <= MaxChallenges

ReportsOK ==
  /\ DOMAIN reporting = TicketCalls
  /\ \A c \in TicketCalls : ReportOK(reporting[c])
  /\ \A c, d \in TicketCalls :
        HoldsNonce(reporting[c]) /\ HoldsNonce(reporting[d]) /\ reporting[c].nonce = reporting[d].nonce => c = d

TicketsOK ==
  /\ \A t \in tickets : Traced(t)
  /\ \A s, t \in tickets : s.nonce = t.nonce => s = t
  /\ \A e \in entered : EntryOK(e)

TicketInv == NoncesOK /\ ReportsOK /\ TicketsOK

(* The map is finite.                                                      *)
LEMMA ChallengesFinite ==
  ASSUME NoncesOK
  PROVE  IsFiniteSet(DOMAIN challenges)
<1>1. IsFiniteSet(1 .. nonces)
  BY FS_Interval DEF NoncesOK
<1> QED
  BY <1>1, FS_Subset DEF NoncesOK

(* What expireLocked leaves is part of the map, and less than a full one.  *)
LEMMA ExpireLeavesRoom ==
  ASSUME NoncesOK
  PROVE  LET room == expireLocked(challenges)
         IN  /\ DOMAIN room \subseteq DOMAIN challenges
             /\ \A n \in DOMAIN room : room[n] = challenges[n]
             /\ Cardinality(DOMAIN room) <= MaxChallenges - 1
<1> DEFINE alive == {n \in DOMAIN challenges : ticketClock <= challenges[n]}
           kept == Restrict(challenges, alive)
           cutoff == Min(Range(kept)) + ChallengeTTL \div 2
           young == {n \in DOMAIN kept : kept[n] >= cutoff}
           room == expireLocked(challenges)
<1>1. /\ DOMAIN kept = alive /\ \A n \in alive : kept[n] = challenges[n] /\ challenges[n] \in Nat
  BY TicketAssumption DEF Restrict, NoncesOK
<1>2. /\ IsFiniteSet(DOMAIN challenges) /\ IsFiniteSet(alive)
      /\ Cardinality(alive) \in Nat /\ Cardinality(DOMAIN challenges) \in Nat
      /\ Cardinality(alive) <= Cardinality(DOMAIN challenges)
  <2>2. IsFiniteSet(DOMAIN challenges)
    BY ChallengesFinite
  <2> QED
    BY <2>2, FS_Subset, FS_CardinalityType
<1>3. room = IF Cardinality(DOMAIN kept) < MaxChallenges THEN kept ELSE Restrict(kept, young)
  BY DEF expireLocked
<1>4. MaxChallenges \in Nat \ {0} /\ ChallengeTTL \in Nat /\ ChallengeTTL >= 2
  BY TicketAssumption
<1>5. CASE Cardinality(alive) < MaxChallenges
  BY <1>1, <1>2, <1>3, <1>4, <1>5
<1>6. CASE ~(Cardinality(alive) < MaxChallenges)
  <2>1. room = Restrict(kept, young) /\ DOMAIN room = young /\ \A n \in young : room[n] = challenges[n]
    BY <1>1, <1>3, <1>6 DEF Restrict
  <2>2. alive # {}
    <3> SUFFICES ASSUME alive = {} PROVE FALSE
      OBVIOUS
    <3>1. Cardinality(alive) = 0
      BY FS_EmptySet
    <3> QED
      BY <1>4, <1>6, <3>1
  <2>3. Range(kept) \subseteq Nat /\ Range(kept) # {}
    BY <1>1, <2>2 DEF Range
  <2>4. PICK oldest \in alive : kept[oldest] = Min(Range(kept))
    <3>1. Min(Range(kept)) \in Range(kept)
      BY <2>3, MinIs
    <3> QED
      BY <1>1, <3>1 DEF Range
  <2>5. oldest \notin young
    <3>1. kept[oldest] \in Nat /\ ChallengeTTL \div 2 >= 1 /\ ChallengeTTL \div 2 \in Nat
      BY <1>1, <1>4
    <3>2. cutoff = kept[oldest] + ChallengeTTL \div 2
      BY <2>4
    <3> HIDE DEF cutoff, kept
    <3> QED
      BY <3>1, <3>2
  <2>6. young \subseteq alive \ {oldest}
    BY <1>1, <2>5
  <2>7. Cardinality(alive \ {oldest}) = Cardinality(alive) - 1 /\ IsFiniteSet(alive \ {oldest})
    BY <1>2, FS_RemoveElement
  <2>8. Cardinality(young) <= Cardinality(alive) - 1 /\ Cardinality(young) \in Nat
    <3> HIDE DEF young, alive
    <3>1. IsFiniteSet(young) /\ Cardinality(young) <= Cardinality(alive \ {oldest})
      BY <2>6, <2>7, FS_Subset
    <3> QED
      BY <2>7, <3>1, FS_CardinalityType
  <2>9. Cardinality(alive) <= MaxChallenges
    BY <1>2, <1>4 DEF NoncesOK
  <2>10. DOMAIN room \subseteq DOMAIN challenges
    BY <2>1, <2>6
  <2> HIDE DEF room, young, alive, kept
  <2>11. Cardinality(DOMAIN room) <= MaxChallenges - 1
    BY <1>2, <1>4, <2>1, <2>8, <2>9
  <2> QED
    BY <2>1, <2>10, <2>11 DEF room
<1> QED
  BY <1>5, <1>6

(* A new nonce: what stays of the map, and the nonce with its lifetime.    *)
LEMMA ChallengeKeeps ==
  ASSUME TicketInv, GetChallenge
  PROVE  TicketInv'
<1> DEFINE room == IF Cardinality(DOMAIN challenges) >= MaxChallenges THEN expireLocked(challenges)
                   ELSE challenges
<1>1. /\ nonces \in Nat /\ nonces' = nonces + 1 /\ ticketClock \in Nat /\ ticketClock' = ticketClock
      /\ nonceAt' = Append(nonceAt, ticketClock) /\ reporting' = reporting
      /\ tickets' = tickets /\ entered' = entered
  BY DEF GetChallenge, TicketInv, NoncesOK
<1>2. /\ DOMAIN room \subseteq DOMAIN challenges
      /\ \A n \in DOMAIN room : room[n] = challenges[n]
      /\ Cardinality(DOMAIN room) <= MaxChallenges - 1
  <2>1. CASE Cardinality(DOMAIN challenges) >= MaxChallenges
    BY <2>1, ExpireLeavesRoom DEF TicketInv
  <2>2. CASE ~(Cardinality(DOMAIN challenges) >= MaxChallenges)
    <3>1. IsFiniteSet(DOMAIN challenges)
      BY ChallengesFinite DEF TicketInv
    <3>2. Cardinality(DOMAIN challenges) \in Nat /\ MaxChallenges \in Nat
      BY <3>1, FS_CardinalityType, TicketAssumption
    <3> QED
      BY <2>2, <3>2
  <2> QED
    BY <2>1, <2>2
<1>3. challenges' = [n \in DOMAIN room \cup {nonces + 1} |->
                        IF n = nonces + 1 THEN ticketClock + ChallengeTTL ELSE room[n]]
  BY DEF GetChallenge, Challenge
<1> HIDE DEF room
<1>4. nonceAt' \in Seq(Nat) /\ Len(nonceAt') = nonces + 1 /\ nonceAt'[nonces + 1] = ticketClock
      /\ \A n \in 1 .. nonces : nonceAt'[n] = nonceAt[n]
  BY <1>1 DEF TicketInv, NoncesOK
<1>5. DOMAIN challenges \subseteq 1 .. nonces /\ nonces + 1 \notin DOMAIN challenges
  BY <1>1 DEF TicketInv, NoncesOK
<1>6. DOMAIN challenges' = DOMAIN room \cup {nonces + 1}
  BY <1>3
<1>7. Cardinality(DOMAIN challenges') <= MaxChallenges
  <2>1. IsFiniteSet(DOMAIN room)
    BY <1>2, ChallengesFinite, FS_Subset DEF TicketInv
  <2>2. Cardinality(DOMAIN challenges') = Cardinality(DOMAIN room) + 1 /\ Cardinality(DOMAIN room) \in Nat
    BY <1>2, <1>5, <1>6, <2>1, FS_AddElement, FS_CardinalityType
  <2> QED
    BY <1>2, <2>2, TicketAssumption
<1>8. \A n \in DOMAIN challenges' : n \in 1 .. nonces + 1 /\ challenges'[n] = nonceAt'[n] + ChallengeTTL
  <2> SUFFICES ASSUME NEW n \in DOMAIN challenges'
               PROVE  n \in 1 .. nonces + 1 /\ challenges'[n] = nonceAt'[n] + ChallengeTTL
    OBVIOUS
  <2>1. CASE n = nonces + 1
    BY <1>1, <1>3, <1>4, <2>1
  <2>2. CASE n # nonces + 1
    <3>1. n \in DOMAIN challenges /\ challenges'[n] = challenges[n] /\ n \in 1 .. nonces
      BY <1>2, <1>3, <1>5, <1>6, <2>2
    <3> QED
      BY <1>1, <1>4, <3>1 DEF TicketInv, NoncesOK
  <2> QED
    BY <2>1, <2>2
<1>9. NoncesOK'
  BY <1>1, <1>4, <1>7, <1>8 DEF NoncesOK
<1>10. ASSUME NEW x, Traced(x) PROVE x.nonce \in 1 .. nonces' /\ x.taken < nonceAt'[x.nonce] + ChallengeTTL
                                    /\ x.nonce \notin DOMAIN challenges'
  BY <1>1, <1>2, <1>4, <1>6, <1>10 DEF Traced
<1>11. ReportsOK'
  BY <1>1, <1>10 DEF TicketInv, ReportsOK, ReportOK, Traced, HoldsNonce, EntryOK
<1>12. TicketsOK'
  BY <1>1, <1>10 DEF TicketInv, TicketsOK, Traced, EntryOK
<1> QED
  BY <1>9, <1>11, <1>12 DEF TicketInv


(* One request moves on, with a nonce that is nowhere else, while nonces   *)
(* leave the map and tickets and entries are added in good order.          *)
LEMMA ReportMoves ==
  ASSUME TicketInv, NEW c \in TicketCalls, NEW r, reporting' = [reporting EXCEPT ![c] = r],
         ticketClock' = ticketClock, nonces' = nonces, nonceAt' = nonceAt,
         DOMAIN challenges' \subseteq DOMAIN challenges,
         \A n \in DOMAIN challenges' : challenges'[n] = challenges[n],
         tickets \subseteq tickets',
         ReportOK(r)', TicketsOK',
         HoldsNonce(r) => \A d \in TicketCalls \ {c} : HoldsNonce(reporting[d]) => reporting[d].nonce # r.nonce,
         \A t \in tickets' \ tickets : HoldsNonce(reporting[c]) /\ t.nonce = reporting[c].nonce
  PROVE  TicketInv'
<1>1. NoncesOK'
  <2>1. IsFiniteSet(DOMAIN challenges)
    BY ChallengesFinite DEF TicketInv
  <2>2. /\ Cardinality(DOMAIN challenges') <= Cardinality(DOMAIN challenges)
        /\ Cardinality(DOMAIN challenges') \in Nat /\ Cardinality(DOMAIN challenges) \in Nat
    BY <2>1, FS_Subset, FS_CardinalityType
  <2>3. Cardinality(DOMAIN challenges') <= MaxChallenges
    BY <2>2, TicketAssumption DEF TicketInv, NoncesOK
  <2> QED
    BY <2>3 DEF TicketInv, NoncesOK
<1>2. /\ DOMAIN reporting' = TicketCalls /\ reporting'[c] = r
      /\ \A d \in TicketCalls \ {c} : reporting'[d] = reporting[d]
  BY DEF TicketInv, ReportsOK
<1>3. ASSUME NEW d \in TicketCalls PROVE ReportOK(reporting[d])'
  <2>1. CASE d = c
    BY <1>2, <2>1 DEF ReportOK, HoldsNonce, Traced, EntryOK
  <2>2. CASE d # c
    <3>1. ReportOK(reporting[d]) /\ reporting'[d] = reporting[d]
      BY <1>2, <2>2 DEF TicketInv, ReportsOK
    <3>2. ASSUME HoldsNonce(reporting[d]) PROVE Traced(reporting[d])' /\ \A t \in tickets' : t.nonce # reporting[d].nonce
      <4>1. Traced(reporting[d]) /\ \A t \in tickets : t.nonce # reporting[d].nonce
        BY <3>1, <3>2 DEF ReportOK
      <4>2. \A t \in tickets' \ tickets : t.nonce # reporting[d].nonce
        BY <2>2, <3>2 DEF TicketInv, ReportsOK
      <4> QED
        BY <3>1, <4>1, <4>2 DEF Traced
    <3>3. ASSUME reporting[d].at = "bans" PROVE EntryOK(reporting[d])'
      BY <3>1, <3>3 DEF ReportOK, EntryOK
    <3> QED
      BY <3>1, <3>2, <3>3 DEF ReportOK, HoldsNonce
  <2> QED
    BY <2>1, <2>2
<1>4. \A d, e \in TicketCalls :
        HoldsNonce(reporting'[d]) /\ HoldsNonce(reporting'[e]) /\ reporting'[d].nonce = reporting'[e].nonce => d = e
  BY <1>2 DEF TicketInv, ReportsOK
<1>5. ReportsOK'
  BY <1>2, <1>3, <1>4 DEF ReportsOK, HoldsNonce
<1> QED
  BY <1>1, <1>5 DEF TicketInv

(* The tickets stay in order when none is added and no nonce put back.     *)
LEMMA TicketsLeftAlone ==
  ASSUME TicketInv, nonces' = nonces, nonceAt' = nonceAt, tickets' = tickets,
         DOMAIN challenges' \subseteq DOMAIN challenges,
         \A e \in entered' \ entered : EntryOK(e)
  PROVE  TicketsOK'
<1> QED
  BY DEF TicketInv, TicketsOK, Traced, EntryOK

(* A report takes its nonce out of the map.                                *)
LEMMA ValidateKeeps ==
  ASSUME TicketInv, NEW c \in TicketCalls, NEW user, NEW n, validate(c, user, n)
  PROVE  TicketInv'
<1>0. PICK r : r = [at |-> "resolve", user |-> user, nonce |-> n, taken |-> ticketClock]
  OBVIOUS
<1>1. /\ ticketClock' = ticketClock /\ nonces' = nonces /\ nonceAt' = nonceAt
      /\ tickets' = tickets /\ entered' = entered /\ reporting[c].at = "idle"
      /\ DOMAIN challenges' = DOMAIN challenges \ {n}
      /\ \A k \in DOMAIN challenges' : challenges'[k] = challenges[k]
  BY DEF validate, Taken, Restrict
<1>2. TicketsOK'
  BY <1>1, TicketsLeftAlone
<1>3. CASE InTime(n)
  <2>1. reporting' = [reporting EXCEPT ![c] = r]
    BY <1>0, <1>3 DEF validate
  <2>2. r.at = "resolve" /\ r.nonce = n /\ r.taken = ticketClock
    BY <1>0
  <2>3. n \in DOMAIN challenges /\ ticketClock < nonceAt[n] + ChallengeTTL /\ n \in 1 .. nonces
    BY <1>3 DEF InTime, TicketInv, NoncesOK
  <2>4. \A t \in tickets : t.nonce # n
    BY <2>3 DEF TicketInv, TicketsOK, Traced
  <2>5. \A d \in TicketCalls : HoldsNonce(reporting[d]) => reporting[d].nonce # n
    BY <2>3 DEF TicketInv, ReportsOK, ReportOK, Traced
  <2>6. ReportOK(r)'
    BY <1>1, <2>2, <2>3, <2>4 DEF ReportOK, HoldsNonce, Traced
  <2> QED
    BY <1>1, <1>2, <2>1, <2>2, <2>5, <2>6, ReportMoves
<1>4. CASE ~InTime(n)
  <2>1. reporting' = reporting
    BY <1>4 DEF validate
  <2>4. \A d \in TicketCalls : ReportOK(reporting[d])'
    BY <1>1, <2>1 DEF TicketInv, ReportsOK, ReportOK, Traced, EntryOK, HoldsNonce
  <2>5. ReportsOK'
    BY <2>1, <2>4 DEF TicketInv, ReportsOK, HoldsNonce
  <2>6. NoncesOK'
    <3>1. IsFiniteSet(DOMAIN challenges)
      BY ChallengesFinite DEF TicketInv
    <3>2. /\ Cardinality(DOMAIN challenges') <= Cardinality(DOMAIN challenges)
          /\ Cardinality(DOMAIN challenges') \in Nat /\ Cardinality(DOMAIN challenges) \in Nat
      BY <1>1, <3>1, FS_Subset, FS_CardinalityType
    <3>3. Cardinality(DOMAIN challenges') <= MaxChallenges
      BY <3>2, TicketAssumption DEF TicketInv, NoncesOK
    <3> QED
      BY <1>1, <3>3 DEF TicketInv, NoncesOK
  <2> QED
    BY <1>2, <2>5, <2>6 DEF TicketInv
<1> QED
  BY <1>3, <1>4

(* Between the nonce and the ticket the request keeps what it took.        *)
LEMMA ResolvedKeeps ==
  ASSUME TicketInv, NEW c \in TicketCalls, Resolved(c)
  PROVE  TicketInv'
<1> DEFINE q == reporting[c]
<1>0. PICK r : r = [at |-> "issue", user |-> q.user, nonce |-> q.nonce, taken |-> q.taken, now |-> ticketClock]
  OBVIOUS
<1>1. /\ reporting' = [reporting EXCEPT ![c] = r]
      /\ ticketClock' = ticketClock /\ nonces' = nonces /\ nonceAt' = nonceAt
      /\ tickets' = tickets /\ entered' = entered /\ q.at = "resolve" /\ challenges' = challenges
  BY <1>0 DEF Resolved
<1>2. r.at = "issue" /\ r.nonce = q.nonce /\ r.taken = q.taken
  BY <1>0
<1>3. Traced(q) /\ \A t \in tickets : t.nonce # q.nonce
  BY <1>1 DEF TicketInv, ReportsOK, ReportOK, HoldsNonce
<1>4. ReportOK(r)'
  BY <1>1, <1>2, <1>3 DEF ReportOK, HoldsNonce, Traced
<1>5. \A d \in TicketCalls \ {c} : HoldsNonce(reporting[d]) => reporting[d].nonce # r.nonce
  BY <1>1, <1>2 DEF TicketInv, ReportsOK, HoldsNonce
<1>6. TicketsOK'
  BY <1>1, TicketsLeftAlone
<1> QED
  BY <1>1, <1>4, <1>5, <1>6, ReportMoves

(* The ticket takes over the request's nonce.                              *)
LEMMA IssueKeeps ==
  ASSUME TicketInv, NEW c \in TicketCalls, Issue(c)
  PROVE  TicketInv'
<1> DEFINE q == reporting[c]
           ticket == [user |-> q.user, key |-> secret, expires |-> q.now + TicketTTL,
                      nonce |-> q.nonce, taken |-> q.taken]
<1>1. /\ reporting' = [reporting EXCEPT ![c] = NoReport]
      /\ ticketClock' = ticketClock /\ nonces' = nonces /\ nonceAt' = nonceAt
      /\ entered' = entered /\ q.at = "issue" /\ challenges' = challenges
      /\ tickets' = tickets \/ tickets' = tickets \cup {ticket}
  BY DEF Issue, ReportEnds
<1>2. ticket.nonce = q.nonce /\ ticket.taken = q.taken
  OBVIOUS
<1> HIDE DEF ticket
<1>3. HoldsNonce(q) /\ Traced(q) /\ \A t \in tickets : t.nonce # q.nonce
  BY <1>1 DEF TicketInv, ReportsOK, ReportOK, HoldsNonce
<1>4. TicketsOK'
  BY <1>1, <1>2, <1>3 DEF TicketInv, TicketsOK, Traced, EntryOK
<1>5. ReportOK(NoReport)' /\ ~HoldsNonce(NoReport)
  BY DEF ReportOK, HoldsNonce, NoReport
<1> QED
  BY <1>1, <1>2, <1>3, <1>4, <1>5, ReportMoves

(* The two halves of the game's sign-in.                                   *)
LEMMA AuthenticateKeeps ==
  ASSUME TicketInv, NEW c \in TicketCalls,
         \/ \E user \in TicketUsers, ticket \in tickets : AuthenticateTicket(c, user, ticket)
         \/ AuthenticateBans(c)
  PROVE  TicketInv'
<1>1. /\ ticketClock' = ticketClock /\ nonces' = nonces /\ nonceAt' = nonceAt
      /\ tickets' = tickets /\ challenges' = challenges
  BY DEF AuthenticateTicket, AuthenticateBans
<1>2. ASSUME NEW user \in TicketUsers, NEW ticket \in tickets, AuthenticateTicket(c, user, ticket)
      PROVE  TicketInv'
  <2>0. PICK r : r = [at |-> "bans", user |-> user, ticket |-> ticket, now |-> ticketClock]
    OBVIOUS
  <2>1. /\ reporting' = [reporting EXCEPT ![c] = r] /\ entered' = entered
        /\ ticket.user = user /\ ticketClock <= ticket.expires
    BY <2>0, <1>2 DEF AuthenticateTicket, VerifyTicket, Verify
  <2>2. r.at = "bans" /\ r.user = user /\ r.ticket = ticket /\ r.now = ticketClock
    BY <2>0
  <2>3. ReportOK(r)' /\ ~HoldsNonce(r)
    BY <1>1, <2>1, <2>2 DEF ReportOK, HoldsNonce, EntryOK
  <2>4. TicketsOK'
    BY <1>1, <2>1, TicketsLeftAlone
  <2> QED
    BY <1>1, <2>1, <2>3, <2>4, ReportMoves
<1>3. ASSUME AuthenticateBans(c) PROVE TicketInv'
  <2> DEFINE q == reporting[c]
             e == [user |-> q.user, ticket |-> q.ticket, now |-> q.now]
  <2>1. /\ reporting' = [reporting EXCEPT ![c] = NoReport] /\ q.at = "bans"
        /\ entered' \subseteq entered \cup {e}
    BY <1>3 DEF AuthenticateBans, ReportEnds
  <2>2. EntryOK(q)
    BY <2>1 DEF TicketInv, ReportsOK, ReportOK
  <2>3. EntryOK(e)
    BY <2>2 DEF EntryOK
  <2> HIDE DEF e
  <2>4. ReportOK(NoReport)' /\ ~HoldsNonce(NoReport)
    BY DEF ReportOK, HoldsNonce, NoReport
  <2>5. TicketsOK'
    BY <1>1, <2>1, <2>3, TicketsLeftAlone
  <2> QED
    BY <1>1, <2>1, <2>4, <2>5, ReportMoves
<1> QED
  BY <1>2, <1>3

(* Every game sign-in was let in on a ticket of that account, made out of  *)
(* a report whose nonce this server had drawn less than a lifetime before; *)
(* no two tickets share a nonce, and the map of nonces never outgrows its  *)
(* limit (gate.go:172, :410), for any number of requests and restarts.     *)
THEOREM EntriesAreTraced == TicketSpec => []EntryTraced
<1>1. TicketInit => TicketInv
  <2> SUFFICES ASSUME TicketInit PROVE TicketInv
    OBVIOUS
  <2>1. DOMAIN challenges = {} /\ Cardinality({}) = 0
    BY FS_EmptySet DEF TicketInit
  <2>2. NoncesOK
    BY <2>1, TicketAssumption DEF TicketInit, NoncesOK
  <2>3. ReportsOK
    BY DEF TicketInit, ReportsOK, ReportOK, HoldsNonce, NoReport
  <2> QED
    BY <2>2, <2>3 DEF TicketInit, TicketInv, TicketsOK
<1>2. TicketInv /\ [TicketNext]_ticketVars => TicketInv'
  <2> SUFFICES ASSUME TicketInv, [TicketNext]_ticketVars PROVE TicketInv'
    OBVIOUS
  <2>1. CASE \/ UNCHANGED ticketVars \/ LoadOrCreateSecret \/ DiesWritingSecret \/ RemoveSecretFile
             \/ \E user \in TicketUsers : BarAccount(user)
    <3>1. /\ ticketClock' = ticketClock /\ nonces' = nonces /\ nonceAt' = nonceAt
          /\ tickets' = tickets /\ challenges' = challenges /\ reporting' = reporting /\ entered' = entered
      BY <2>1 DEF ticketVars, LoadOrCreateSecret, DiesWritingSecret, RemoveSecretFile, BarAccount
    <3> QED
      BY <3>1 DEF TicketInv, NoncesOK, ReportsOK, ReportOK, TicketsOK, Traced, HoldsNonce, EntryOK
  <2>2. CASE TicketTick
    <3>1. /\ ticketClock' \in Nat /\ nonces' = nonces /\ nonceAt' = nonceAt
          /\ tickets' = tickets /\ challenges' = challenges /\ reporting' = reporting /\ entered' = entered
      BY <2>2 DEF TicketTick, TicketInv, NoncesOK
    <3> QED
      BY <3>1 DEF TicketInv, NoncesOK, ReportsOK, ReportOK, TicketsOK, Traced, HoldsNonce, EntryOK
  <2>3. CASE GateStops
    <3>1. /\ ticketClock' = ticketClock /\ nonces' = nonces /\ nonceAt' = nonceAt
          /\ tickets' = tickets /\ challenges' = <<>> /\ entered' = entered
          /\ reporting' = [c \in TicketCalls |-> NoReport]
      BY <2>3 DEF GateStops
    <3>2. DOMAIN challenges' = {} /\ Cardinality({}) = 0
      BY <3>1, FS_EmptySet
    <3>3. NoncesOK'
      BY <3>1, <3>2, TicketAssumption DEF TicketInv, NoncesOK
    <3>4. ReportsOK'
      BY <3>1 DEF ReportsOK, ReportOK, HoldsNonce, NoReport
    <3>5. TicketsOK'
      BY <3>1, <3>2, TicketsLeftAlone
    <3> QED
      BY <3>3, <3>4, <3>5 DEF TicketInv
  <2> QED
    BY <2>1, <2>2, <2>3, ChallengeKeeps, ValidateKeeps, ResolvedKeeps, IssueKeeps, AuthenticateKeeps
    DEF TicketNext
<1>3. TicketInv => EntryTraced
  BY DEF TicketInv, NoncesOK, TicketsOK, Traced, EntryOK, EntryTraced
<1> QED
  BY <1>1, <1>2, <1>3, PTL DEF TicketSpec


-----------------------------------------------------------------------------
(***************************************************************************)
(* Accounts.  While nothing overlaps a command, what it read is what the   *)
(* file has, then what the copy has; what it saves differs from that in    *)
(* the one account it is about.                                            *)
(***************************************************************************)
AccountMaps == UNION {[S -> Account] : S \in SUBSET Names}

SignInTask == [step : {"loaded"}, kind : {"sign in"}, name : Names, read : AccountMaps, alone : {FALSE}]
CommandTask == [step : {"loaded", "locked", "answered"}, kind : {"add", "passwd", "remove", "list"},
                name : Names, password : Passwords, began : AccountMaps, read : AccountMaps, alone : BOOLEAN]

(* What an answered command promises (the body of CommandKeepsTheRest).    *)
KeptTheRest(task) ==
  /\ \A n \in Names \ {task.name} :
       /\ n \in DOMAIN file.accounts <=> n \in DOMAIN task.began
       /\ n \in DOMAIN task.began => file.accounts[n] = task.began[n]
  /\ stamp = file.n
  /\ verdict(users, task.name, task.password, "right")
       = (IF task.kind = "remove" THEN "invalid" ELSE "identity")

TaskOK(task) ==
  task.alone =>
    /\ task.step = "loaded" => task.read = task.began /\ task.began = file.accounts
    /\ task.step = "locked" => /\ task.kind # "list"
                               /\ users = task.began /\ file.accounts = task.began /\ stamp = file.n
    /\ task.step = "answered" => KeptTheRest(task)

AccountsTypes ==
  /\ file \in [accounts : AccountMaps, n : Nat]
  /\ users \in AccountMaps
  /\ tasks \in [Tasks -> SignInTask \cup CommandTask \cup {NoTask}]

AccountsInv ==
  /\ AccountsTypes
  /\ \A t \in Tasks : tasks[t] # NoTask =>
        TaskOK(tasks[t]) /\ (tasks[t].alone => \A u \in Tasks \ {t} : tasks[u] = NoTask)

(* What the steps of a task tell apart.                                    *)
LEMMA TaskKinds ==
  ASSUME AccountsTypes, NEW t \in Tasks
  PROVE  /\ tasks[t] = NoTask => tasks[t].step = "idle"
         /\ tasks[t] # NoTask => /\ tasks[t].step # "idle" /\ tasks[t].alone \in BOOLEAN
                                 /\ tasks[t].read \in AccountMaps
         /\ tasks[t].step \in {"locked", "answered"} => tasks[t] \in CommandTask
         /\ tasks[t] # NoTask /\ tasks[t].alone => tasks[t] \in CommandTask
         /\ tasks[t] # NoTask /\ tasks[t].kind # "sign in" => tasks[t] \in CommandTask
<1>0. NoTask.step = "idle"
  BY DEF NoTask
<1>1. CASE tasks[t] = NoTask
  <2>1. tasks[t].step = "idle"
    BY <1>0, <1>1
  <2> QED
    BY <1>1, <2>1
<1>2. CASE tasks[t] \in SignInTask
  <2>1. /\ tasks[t].step = "loaded" /\ tasks[t].alone = FALSE /\ tasks[t].read \in AccountMaps
        /\ tasks[t].kind = "sign in"
    BY <1>2 DEF SignInTask
  <2>2. tasks[t] # NoTask
    BY <1>0, <2>1
  <2> QED
    BY <2>1, <2>2
<1>3. CASE tasks[t] \in CommandTask
  <2>1. /\ tasks[t].step # "idle" /\ tasks[t].alone \in BOOLEAN /\ tasks[t].read \in AccountMaps
    BY <1>3 DEF CommandTask
  <2>2. tasks[t] # NoTask
    BY <1>0, <2>1
  <2> QED
    BY <1>3, <2>1, <2>2
<1> QED
  BY <1>1, <1>2, <1>3 DEF AccountsTypes

(* A step of a task that hears of all others: they are no longer alone.    *)
LEMMA InterferesIs ==
  ASSUME AccountsTypes, NEW t \in Tasks
  PROVE  /\ Interferes(t) \in [Tasks -> SignInTask \cup CommandTask \cup {NoTask}]
         /\ Interferes(t)[t] = tasks[t]
         /\ \A u \in Tasks \ {t} : /\ Interferes(t)[u] = NoTask <=> tasks[u] = NoTask
                                   /\ Interferes(t)[u] # NoTask => ~Interferes(t)[u].alone
<1>1. ASSUME NEW task \in SignInTask \cup CommandTask
      PROVE  /\ [task EXCEPT !.alone = FALSE] \in SignInTask \cup CommandTask
             /\ [task EXCEPT !.alone = FALSE] # NoTask
             /\ ~[task EXCEPT !.alone = FALSE].alone
  <2>1. CASE task \in SignInTask
    <3> DEFINE r == [task EXCEPT !.alone = FALSE]
    <3>1. r \in SignInTask /\ r.alone = FALSE /\ r.step = "loaded"
      BY <2>1 DEF SignInTask
    <3> HIDE DEF r
    <3>2. r # NoTask
      BY <3>1 DEF NoTask
    <3> QED
      BY <3>1, <3>2 DEF r
  <2>2. CASE task \in CommandTask
    <3> DEFINE r == [task EXCEPT !.alone = FALSE]
    <3>1. r \in CommandTask /\ r.alone = FALSE /\ r.step # "idle"
      BY <2>2 DEF CommandTask
    <3> HIDE DEF r
    <3>2. r # NoTask
      BY <3>1 DEF NoTask
    <3> QED
      BY <3>1, <3>2 DEF r
  <2> QED
    BY <2>1, <2>2
<1>2. \A u \in Tasks : tasks[u] \in SignInTask \cup CommandTask \/ tasks[u] = NoTask
  BY DEF AccountsTypes
<1>3. ASSUME NEW u \in Tasks
      PROVE  /\ Interferes(t)[u] \in SignInTask \cup CommandTask \cup {NoTask}
             /\ u = t => Interferes(t)[u] = tasks[u]
             /\ u # t => /\ Interferes(t)[u] = NoTask <=> tasks[u] = NoTask
                         /\ Interferes(t)[u] # NoTask => ~Interferes(t)[u].alone
  <2>1. CASE u = t \/ tasks[u] = NoTask
    BY <1>2, <2>1 DEF Interferes
  <2>2. CASE ~(u = t \/ tasks[u] = NoTask)
    <3>1. Interferes(t)[u] = [tasks[u] EXCEPT !.alone = FALSE]
      BY <2>2 DEF Interferes
    <3> QED
      BY <1>1, <1>2, <2>2, <3>1
  <2> QED
    BY <2>1, <2>2
<1>4. Interferes(t) = [u \in Tasks |-> Interferes(t)[u]]
  BY DEF Interferes
<1> QED
  BY <1>3, <1>4

(* A command or a sign-in begins.                                          *)
LEMMA TaskBegins ==
  ASSUME AccountsInv, NEW t \in Tasks, tasks[t] = NoTask,
         NEW task \in SignInTask \cup CommandTask,
         tasks' = [Interferes(t) EXCEPT ![t] = task],
         file' = file, users' = users, stamp' = stamp,
         task.step = "loaded",
         task.alone => /\ task.read = task.began /\ task.began = file.accounts
                       /\ \A u \in Tasks : tasks[u] = NoTask
  PROVE  AccountsInv'
<1>1. AccountsTypes
  BY DEF AccountsInv
<1>2. /\ tasks'[t] = task
      /\ \A u \in Tasks \ {t} : tasks'[u] = Interferes(t)[u]
      /\ tasks' \in [Tasks -> SignInTask \cup CommandTask \cup {NoTask}]
  BY <1>1, InterferesIs
<1>3. AccountsTypes'
  BY <1>1, <1>2 DEF AccountsTypes
<1>4. ASSUME NEW u \in Tasks, tasks'[u] # NoTask
      PROVE  TaskOK(tasks[u])' /\ (tasks'[u].alone => \A v \in Tasks \ {u} : tasks'[v] = NoTask)
  <2>1. CASE u = t
    <3>1. TaskOK(tasks[u])'
      BY <1>2, <2>1 DEF TaskOK
    <3>2. task.alone => \A v \in Tasks \ {t} : tasks'[v] = NoTask
      BY <1>1, <1>2, InterferesIs
    <3> QED
      BY <1>2, <2>1, <3>1, <3>2
  <2>2. CASE u # t
    <3>1. ~tasks'[u].alone
      BY <1>1, <1>2, <1>4, <2>2, InterferesIs
    <3> QED
      BY <3>1 DEF TaskOK
  <2> QED
    BY <2>1, <2>2
<1> QED
  BY <1>3, <1>4 DEF AccountsInv


(* A task ends, or goes on with nothing left to promise.                   *)
LEMMA TaskGoesOn ==
  ASSUME AccountsInv, NEW t \in Tasks, tasks[t] # NoTask,
         NEW task \in CommandTask \cup {NoTask},
         tasks' = [tasks EXCEPT ![t] = task],
         file' = file, users' \in AccountMaps,
         task # NoTask => TaskOK(task)' /\ task.alone = tasks[t].alone
  PROVE  AccountsInv'
<1>1. AccountsTypes'
  BY DEF AccountsInv, AccountsTypes
<1>2. /\ tasks'[t] = task /\ \A u \in Tasks \ {t} : tasks'[u] = tasks[u]
  BY DEF AccountsInv, AccountsTypes
<1>3. ASSUME NEW u \in Tasks, tasks'[u] # NoTask
      PROVE  TaskOK(tasks[u])' /\ (tasks'[u].alone => \A v \in Tasks \ {u} : tasks'[v] = NoTask)
  <2>1. CASE u = t
    <3>0. tasks'[u] = task /\ TaskOK(task)'
      BY <1>2, <1>3, <2>1
    <3>1. TaskOK(tasks[u])'
      BY <3>0 DEF TaskOK, KeptTheRest
    <3> QED
      BY <1>2, <1>3, <2>1, <3>1 DEF AccountsInv
  <2>2. CASE u # t
    <3>1. ~tasks[u].alone /\ tasks'[u] = tasks[u]
      BY <1>2, <1>3, <2>2 DEF AccountsInv
    <3> QED
      BY <3>1 DEF TaskOK
  <2> QED
    BY <2>1, <2>2
<1> QED
  BY <1>1, <1>3 DEF AccountsInv

(* The second half of load.                                                *)
LEMMA LoadKeeps ==
  ASSUME AccountsInv, NEW t \in Tasks, load(t)
  PROVE  AccountsInv'
<1>0. AccountsTypes
  BY DEF AccountsInv
<1>1. /\ tasks[t].step = "loaded" /\ users' = tasks[t].read /\ stamp' = file.n /\ file' = file
  BY DEF load
<1>2. tasks[t] # NoTask /\ tasks[t].read \in AccountMaps /\ TaskOK(tasks[t])
  BY <1>0, <1>1, TaskKinds DEF AccountsInv
<1>3. CASE tasks[t].kind \in {"sign in", "list"}
  <2>1. tasks' = [tasks EXCEPT ![t] = NoTask]
    BY <1>3 DEF load
  <2> QED
    BY <1>1, <1>2, <2>1, TaskGoesOn
<1>4. CASE tasks[t].kind \notin {"sign in", "list"}
  <2>1. PICK task : task = [tasks[t] EXCEPT !.step = "locked"]
    OBVIOUS
  <2>2. tasks' = [tasks EXCEPT ![t] = task]
    BY <1>4, <2>1 DEF load
  <2>3. tasks[t] \in CommandTask
    BY <1>0, <1>2, <1>4, TaskKinds
  <2>4. /\ task \in CommandTask /\ task.step = "locked" /\ task.alone = tasks[t].alone
        /\ task.kind = tasks[t].kind /\ task.began = tasks[t].began
    BY <2>1, <2>3 DEF CommandTask
  <2>5. TaskOK(task)'
    BY <1>1, <1>2, <1>4, <2>4 DEF TaskOK
  <2> QED
    BY <1>1, <1>2, <2>2, <2>4, <2>5, TaskGoesOn
<1> QED
  BY <1>3, <1>4

(* What a command makes of the accounts, when it may: the account it is    *)
(* about is changed and the others are not.                                *)
LEMMA ChangedIs ==
  ASSUME users \in AccountMaps, NEW task \in CommandTask, task.kind # "list",
         (task.name \in DOMAIN users) # (task.kind = "add")
  PROVE  /\ Changed(task) \in AccountMaps
         /\ \A n \in Names \ {task.name} :
              /\ n \in DOMAIN Changed(task) <=> n \in DOMAIN users
              /\ n \in DOMAIN users => Changed(task)[n] = users[n]
         /\ verdict(Changed(task), task.name, task.password, "right")
              = (IF task.kind = "remove" THEN "invalid" ELSE "identity")
<1>1. /\ DOMAIN users \subseteq Names /\ users \in [DOMAIN users -> Account]
      /\ task.name \in Names /\ task.password \in Passwords
  BY DEF AccountMaps, CommandTask
<1>2. ASSUME NEW m, NEW S \in SUBSET Names, m \in [S -> Account] PROVE m \in AccountMaps
  BY <1>2 DEF AccountMaps
<1>3. CASE task.kind = "add"
  <2> DEFINE new == [password |-> task.password, secret |-> FALSE]
             m == [n \in DOMAIN users \union {task.name} |-> IF n = task.name THEN new ELSE users[n]]
  <2>1. Changed(task) = m
    BY <1>3 DEF Changed
  <2>2. new \in Account /\ new.password = task.password /\ new.secret = FALSE
    BY <1>1 DEF Account
  <2> HIDE DEF new
  <2>3. m \in [DOMAIN users \union {task.name} -> Account] /\ DOMAIN m = DOMAIN users \union {task.name}
    BY <1>1, <2>2
  <2>4. m \in AccountMaps
    <3> HIDE DEF m
    <3> QED
      BY <1>1, <1>2, <2>3
  <2>5. m[task.name] = new /\ \A n \in DOMAIN users \ {task.name} : m[n] = users[n]
    OBVIOUS
  <2> HIDE DEF m
  <2>6. verdict(m, task.name, task.password, "right") = "identity"
    BY <2>2, <2>3, <2>5 DEF verdict
  <2> QED
    BY <1>3, <2>1, <2>3, <2>4, <2>5, <2>6
<1>4. CASE task.kind = "passwd"
  <2> DEFINE old == users[task.name]
             new == [old EXCEPT !.password = task.password]
             m == [users EXCEPT ![task.name] = new]
  <2>0. task.name \in DOMAIN users
    BY <1>4
  <2>1. Changed(task) = m
    BY <1>4 DEF Changed
  <2>2. old \in Account
    BY <1>1, <2>0
  <2> HIDE DEF old
  <2>3. new \in Account /\ new.password = task.password /\ new.secret \in BOOLEAN
    BY <1>1, <2>2 DEF Account
  <2> HIDE DEF new
  <2>4. m \in [DOMAIN users -> Account] /\ DOMAIN m = DOMAIN users
    BY <1>1, <2>3
  <2>5. m[task.name] = new /\ \A n \in DOMAIN users \ {task.name} : m[n] = users[n]
    BY <1>1, <2>0
  <2> HIDE DEF m
  <2>6. m \in AccountMaps
    BY <1>1, <1>2, <2>4
  <2>7. verdict(m, task.name, task.password, "right") = "identity"
    <3>1. CASE new.secret = TRUE
      BY <2>0, <2>3, <2>4, <2>5, <3>1 DEF verdict
    <3>2. CASE new.secret = FALSE
      BY <2>0, <2>3, <2>4, <2>5, <3>2 DEF verdict
    <3> QED
      BY <2>3, <3>1, <3>2
  <2> QED
    BY <1>4, <2>1, <2>4, <2>5, <2>6, <2>7
<1>5. CASE task.kind = "remove"
  <2> DEFINE S == DOMAIN users \ {task.name}
             m == Restrict(users, S)
  <2>1. Changed(task) = m
    BY <1>5 DEF Changed
  <2>2. m \in [S -> Account] /\ DOMAIN m = S /\ \A n \in S : m[n] = users[n]
    BY <1>1 DEF Restrict
  <2>3. S \in SUBSET Names
    BY <1>1
  <2> HIDE DEF m
  <2>4. m \in AccountMaps
    BY <1>2, <2>2, <2>3
  <2>5. verdict(m, task.name, task.password, "right") = "invalid"
    BY <2>2 DEF verdict
  <2> QED
    BY <1>5, <2>1, <2>2, <2>4, <2>5
<1> QED
  BY <1>3, <1>4, <1>5 DEF CommandTask

(* Under the lock.                                                         *)
LEMMA SaveKeeps ==
  ASSUME AccountsInv, NEW t \in Tasks, save(t)
  PROVE  AccountsInv'
<1> DEFINE task == tasks[t]
<1>0. AccountsTypes
  BY DEF AccountsInv
<1>1. task.step = "locked" /\ task \in CommandTask /\ task # NoTask /\ TaskOK(task)
  BY <1>0, TaskKinds DEF AccountsInv, save
<1>2. CASE (task.name \in DOMAIN users) = (task.kind = "add")
  <2>1. tasks' = [tasks EXCEPT ![t] = NoTask] /\ file' = file /\ users' = users
    BY <1>2 DEF save, Over, Accepts
  <2>2. users' \in AccountMaps
    BY <1>0, <2>1 DEF AccountsTypes
  <2> QED
    BY <1>1, <2>1, <2>2, TaskGoesOn
<1>3. CASE (task.name \in DOMAIN users) # (task.kind = "add")
  <2>1. users' = Changed(task)
    BY <1>3 DEF save
  <2>2. PICK new : new = Changed(task)
    OBVIOUS
  <2>3. CASE /\ WriteFile(users') /\ stamp' = file'.n
             /\ tasks' = [Interferes(t) EXCEPT ![t].step = "answered"]
    <3>1. file' = [accounts |-> users', n |-> file.n + 1] /\ file.n \in Nat
      BY <1>0, <2>3 DEF WriteFile, AccountsTypes
    <3>2. PICK done : done = [task EXCEPT !.step = "answered"]
      OBVIOUS
    <3>3. /\ done \in CommandTask /\ done.step = "answered" /\ done.alone = task.alone
          /\ done.name = task.name /\ done.password = task.password /\ done.kind = task.kind
          /\ done.began = task.began /\ done.alone \in BOOLEAN
      BY <1>1, <3>2 DEF CommandTask
    <3>4. /\ tasks' \in [Tasks -> SignInTask \cup CommandTask \cup {NoTask}]
          /\ tasks'[t] = done
          /\ \A u \in Tasks \ {t} : /\ tasks'[u] = NoTask <=> tasks[u] = NoTask
                                    /\ tasks'[u] # NoTask => ~tasks'[u].alone
      <4>1. tasks' = [Interferes(t) EXCEPT ![t] = done]
        BY <1>0, <2>3, <3>2, InterferesIs
      <4> QED
        BY <1>0, <3>3, <4>1, InterferesIs
    <3>5. CASE task.kind = "list"
      \* a list never gets here alone
      <4>1. ~task.alone
        BY <1>1, <3>5 DEF TaskOK
      <4>2. users' \in AccountMaps
        <5>1. task.name \in DOMAIN users
          BY <1>3, <3>5
        <5>2. Changed(task) = Restrict(users, DOMAIN users \ {task.name})
          BY <3>5 DEF Changed
        <5>3. DOMAIN users \subseteq Names /\ users \in [DOMAIN users -> Account]
          BY <1>0 DEF AccountsTypes, AccountMaps
        <5>4. users' \in [DOMAIN users \ {task.name} -> Account]
          BY <2>1, <5>2, <5>3 DEF Restrict
        <5> QED
          BY <5>3, <5>4 DEF AccountMaps
      <4>3. AccountsTypes'
        BY <3>1, <3>4, <4>2 DEF AccountsTypes
      <4>4. \A u \in Tasks : tasks'[u] # NoTask => ~tasks'[u].alone
        BY <3>3, <3>4, <4>1
      <4>5. \A u \in Tasks : tasks'[u] # NoTask => TaskOK(tasks[u])'
        BY <4>4 DEF TaskOK
      <4> QED
        BY <4>3, <4>4, <4>5 DEF AccountsInv
    <3>6. CASE task.kind # "list"
      <4> HIDE DEF task
      <4>1. /\ users' \in AccountMaps
            /\ \A n \in Names \ {task.name} :
                 /\ n \in DOMAIN users' <=> n \in DOMAIN users
                 /\ n \in DOMAIN users => users'[n] = users[n]
            /\ verdict(users', task.name, task.password, "right")
                 = (IF task.kind = "remove" THEN "invalid" ELSE "identity")
        BY <1>0, <1>1, <1>3, <2>1, <3>6, ChangedIs DEF AccountsTypes
      <4>2. AccountsTypes'
        BY <3>1, <3>4, <4>1 DEF AccountsTypes
      <4>3. file'.accounts = users' /\ stamp' = file'.n
        BY <2>3, <3>1
      <4>4. ASSUME done.alone PROVE KeptTheRest(done)'
        <5>1. users = done.began
          BY <1>1, <3>3, <4>4 DEF TaskOK
        <5> QED
          BY <3>3, <4>1, <4>3, <5>1 DEF KeptTheRest, verdict
      <4>5. TaskOK(done)'
        BY <3>3, <4>4 DEF TaskOK
      <4>6. ASSUME NEW u \in Tasks, tasks'[u] # NoTask
            PROVE  TaskOK(tasks[u])' /\ (tasks'[u].alone => \A v \in Tasks \ {u} : tasks'[v] = NoTask)
        <5>1. CASE u = t
          <6>1. TaskOK(tasks[u])'
            BY <3>4, <4>5, <5>1 DEF TaskOK, KeptTheRest
          <6>2. done.alone => \A v \in Tasks \ {t} : tasks'[v] = NoTask
            BY <1>1, <3>3, <3>4 DEF AccountsInv, task
          <6> QED
            BY <3>4, <5>1, <6>1, <6>2
        <5>2. CASE u # t
          <6>1. ~tasks'[u].alone
            BY <3>4, <4>6, <5>2
          <6> QED
            BY <6>1 DEF TaskOK
        <5> QED
          BY <5>1, <5>2
      <4> QED
        BY <4>2, <4>6 DEF AccountsInv
    <3> QED
      BY <3>5, <3>6
  <2>4. CASE Over(t) /\ file' = file
    <3>1. users' \in AccountMaps
      <4>1. DOMAIN users \subseteq Names /\ users \in [DOMAIN users -> Account]
        BY <1>0 DEF AccountsTypes, AccountMaps
      <4>2. CASE task.kind # "list"
        <5> HIDE DEF task
        <5> QED
          BY <1>0, <1>1, <1>3, <2>1, <4>2, ChangedIs DEF AccountsTypes
      <4>3. CASE task.kind = "list"
        <5>1. Changed(task) = Restrict(users, DOMAIN users \ {task.name})
          BY <4>3 DEF Changed
        <5>2. users' \in [DOMAIN users \ {task.name} -> Account]
          BY <2>1, <4>1, <5>1 DEF Restrict
        <5> QED
          BY <4>1, <5>2 DEF AccountMaps
      <4> QED
        BY <4>2, <4>3
    <3> QED
      BY <1>1, <2>4, <3>1, TaskGoesOn DEF Over, Accepts
  <2> QED
    BY <1>3, <2>3, <2>4 DEF save
<1> QED
  BY <1>2, <1>3


(* A command that nothing overlaps and that says it is done left every     *)
(* other account as the file had it when it began, and the next sign-in    *)
(* sees what it wrote (jsonfile.go:188), for any accounts and any number   *)
(* of requests and commands.                                               *)
THEOREM CommandsKeepTheRest == AccountsSpec => []CommandKeepsTheRest
<1>1. AccountsInit => AccountsInv
  <2> SUFFICES ASSUME AccountsInit PROVE AccountsInv
    OBVIOUS
  <2>1. <<>> \in AccountMaps
    <3>1. <<>> \in [{} -> Account]
      OBVIOUS
    <3> QED
      BY <3>1 DEF AccountMaps
  <2>2. AccountsTypes
    BY <2>1 DEF AccountsInit, AccountsTypes
  <2> QED
    BY <2>2 DEF AccountsInit, AccountsInv
<1>2. AccountsInv /\ [AccountsNext]_accountsVars => AccountsInv'
  <2> SUFFICES ASSUME AccountsInv, [AccountsNext]_accountsVars PROVE AccountsInv'
    OBVIOUS
  <2>0. AccountsTypes
    BY DEF AccountsInv
  <2>1. CASE UNCHANGED accountsVars
    <3>1. file' = file /\ users' = users /\ stamp' = stamp /\ tasks' = tasks
      BY <2>1 DEF accountsVars
    <3>2. ASSUME NEW t \in Tasks, TaskOK(tasks[t]) PROVE TaskOK(tasks[t])'
      BY <3>1, <3>2 DEF TaskOK, KeptTheRest
    <3> QED
      BY <3>1, <3>2 DEF AccountsInv, AccountsTypes
  <2>2. ASSUME NEW t \in Tasks, NEW name \in Names, Refreshes(t, name) PROVE AccountsInv'
    <3>1. PICK task : task = [step |-> "loaded", kind |-> "sign in", name |-> name,
                              read |-> file.accounts, alone |-> FALSE]
      OBVIOUS
    <3>2. task \in SignInTask /\ task.step = "loaded" /\ ~task.alone
      BY <2>0, <3>1 DEF SignInTask, AccountsTypes
    <3>3. /\ tasks[t] = NoTask /\ tasks' = [Interferes(t) EXCEPT ![t] = task]
          /\ file' = file /\ users' = users /\ stamp' = stamp
      BY <2>2, <3>1 DEF Refreshes
    <3> QED
      BY <3>2, <3>3, TaskBegins
  <2>3. ASSUME NEW t \in Tasks, NEW name \in Names, NEW password \in Passwords,
               NEW kind \in {"add", "passwd", "remove", "list"}, Command(t, kind, name, password)
        PROVE  AccountsInv'
    <3>0. PICK alone \in BOOLEAN : alone <=> \A u \in Tasks : tasks[u] = NoTask
      OBVIOUS
    <3>1. PICK task : task = [step |-> "loaded", kind |-> kind, name |-> name, password |-> password,
                              began |-> file.accounts, read |-> file.accounts, alone |-> alone]
      OBVIOUS
    <3>2. /\ task \in CommandTask /\ task.step = "loaded" /\ task.alone = alone
          /\ task.read = file.accounts /\ task.began = file.accounts
      BY <2>0, <3>1 DEF CommandTask, AccountsTypes
    <3>3. alone = (\A u \in Tasks : tasks[u] = NoTask)
      BY <3>0
    <3>4. /\ tasks[t] = NoTask /\ tasks' = [Interferes(t) EXCEPT ![t] = task]
          /\ file' = file /\ users' = users /\ stamp' = stamp
      BY <2>3, <3>1, <3>3 DEF Command
    <3> QED
      BY <3>0, <3>2, <3>4, TaskBegins
  <2>4. ASSUME NEW t \in Tasks, AccountAnswered(t) PROVE AccountsInv'
    <3>1. /\ tasks[t].step = "answered" /\ tasks' = [tasks EXCEPT ![t] = NoTask]
          /\ file' = file /\ users' = users
      BY <2>4 DEF AccountAnswered, Over, Accepts
    <3>2. tasks[t] # NoTask /\ users \in AccountMaps
      BY <2>0, <3>1, TaskKinds DEF AccountsTypes
    <3> QED
      BY <3>1, <3>2, TaskGoesOn
  <2>5. CASE HandEdit
    <3>1. PICK name \in Names, account \in Account :
            /\ WriteFile([n \in DOMAIN file.accounts \union {name} |->
                            IF n = name THEN account ELSE file.accounts[n]])
            /\ tasks' = [t \in Tasks |-> IF tasks[t] = NoTask THEN NoTask ELSE [tasks[t] EXCEPT !.alone = FALSE]]
            /\ users' = users /\ stamp' = stamp
      BY <2>5 DEF HandEdit
    <3> DEFINE m == [n \in DOMAIN file.accounts \union {name} |->
                        IF n = name THEN account ELSE file.accounts[n]]
    <3>2. file' = [accounts |-> m, n |-> file.n + 1] /\ file.n \in Nat
      BY <2>0, <3>1 DEF WriteFile, AccountsTypes
    <3>3. m \in AccountMaps
      <4>1. DOMAIN file.accounts \subseteq Names /\ file.accounts \in [DOMAIN file.accounts -> Account]
        BY <2>0 DEF AccountsTypes, AccountMaps
      <4>2. m \in [DOMAIN file.accounts \union {name} -> Account]
        BY <4>1
      <4> HIDE DEF m
      <4> QED
        BY <4>1, <4>2 DEF AccountMaps
    <3> HIDE DEF m
    <3>4. ASSUME NEW t \in Tasks
          PROVE  /\ tasks'[t] \in SignInTask \cup CommandTask \cup {NoTask}
                 /\ tasks'[t] # NoTask => ~tasks'[t].alone
      <4>1. CASE tasks[t] = NoTask
        BY <3>1, <4>1
      <4>2. CASE tasks[t] # NoTask
        <5>1. tasks'[t] = [tasks[t] EXCEPT !.alone = FALSE]
          BY <3>1, <4>2
        <5>2. CASE tasks[t] \in SignInTask
          BY <5>1, <5>2 DEF SignInTask
        <5>3. CASE tasks[t] \in CommandTask
          BY <5>1, <5>3 DEF CommandTask
        <5> QED
          BY <2>0, <4>2, <5>2, <5>3 DEF AccountsTypes
      <4> QED
        BY <4>1, <4>2
    <3>5. tasks' \in [Tasks -> SignInTask \cup CommandTask \cup {NoTask}]
      BY <3>1, <3>4
    <3>6. AccountsTypes'
      BY <2>0, <3>1, <3>2, <3>3, <3>5 DEF AccountsTypes
    <3>7. \A t \in Tasks : tasks'[t] # NoTask => TaskOK(tasks[t])'
      BY <3>4 DEF TaskOK
    <3> QED
      BY <3>4, <3>6, <3>7 DEF AccountsInv
  <2> QED
    BY <2>1, <2>2, <2>3, <2>4, <2>5, LoadKeeps, SaveKeeps DEF AccountsNext
<1>3. AccountsInv => CommandKeepsTheRest
  <2> SUFFICES ASSUME AccountsInv, NEW t \in Tasks, tasks[t].step = "answered", tasks[t].alone
               PROVE  KeptTheRest(tasks[t])
    BY DEF CommandKeepsTheRest, KeptTheRest
  <2>1. tasks[t] # NoTask
    BY TaskKinds DEF AccountsInv
  <2> QED
    BY <2>1 DEF AccountsInv, TaskOK
<1> QED
  BY <1>1, <1>2, <1>3, PTL DEF AccountsSpec


-----------------------------------------------------------------------------
(***************************************************************************)
(* AccessRules.  Whatever list is at hand, in the roster, in the cache or  *)
(* with a call, knows how old it is: everyone on it was entitled when it   *)
(* was read.  A roster looked at while the file was unreadable is as old   *)
(* as the last answer given before that.                                   *)
(***************************************************************************)
ListRecord == [members : SUBSET AccessPlayers, state : {"ok", "gone", "broken"}, stamp : Nat]
RosterRecord == [members : SUBSET AccessPlayers, stamp : Int, checked : Int]
EntryRecord == [by : AccessCalls \cup {Nobody}, fetched : Nat, error : BOOLEAN,
                members : SUBSET AccessPlayers]
AskRecord == [pc : {"ask", "fetch", "fill", "wait", "ready"}, player : AccessPlayers, from : Nat,
              on : AccessCalls \cup {Nobody}, result : EntryRecord]

AccessTypes ==
  /\ rule \in Rule
  /\ list \in ListRecord
  /\ roster \in RosterRecord
  /\ current \in [CacheKeys -> EntryRecord \cup {NoEntry}]
  /\ asking \in [AccessCalls -> AskRecord \cup {NotAsking}]
  /\ clock \in Nat
  /\ entitled \in [AccessPlayers -> Nat]

RosterFresh ==
  /\ roster.stamp <= list.stamp
  /\ roster.stamp = list.stamp => list.state = "ok" /\ roster.members = list.members
  /\ roster.stamp >= 0 /\ rule.source = "file" => \A p \in roster.members :
        /\ roster.checked <= entitled[p] \/ roster.checked <= seen.bad
        /\ seen.asked <= entitled[p] + FileStatInterval - 1

SeenOK ==
  /\ seen \in [ok : Int, bad : Int, asked : Int]
  /\ seen.bad <= clock
  /\ seen.asked <= clock

EntryFresh(e) == \A p \in e.members : e.fetched <= entitled[p] + FetchTime

AskFresh(a) ==
  /\ a.pc # "ask" => rule.source # "file"
  /\ a.pc \in {"fetch", "fill"} => a.from <= clock /\ clock <= a.from + FetchTime
  /\ a.pc = "fill" => \A p \in a.result.members : a.from <= entitled[p]
  /\ a.pc = "ready" => \A p \in a.result.members : clock <= entitled[p] + CacheTTL - 1 + FetchTime

AccessInv ==
  /\ AccessTypes
  /\ SeenOK
  /\ \A p \in AccessPlayers : entitled[p] <= clock
  /\ RosterFresh
  /\ \A key \in CacheKeys : current[key] # NoEntry => EntryFresh(current[key])
  /\ \A c \in AccessCalls : asking[c] # NotAsking => AskFresh(asking[c])

(* The moment a player was last entitled never goes back.                  *)
LEMMA EntitledGrows ==
  ASSUME AccessInv, AccessNext, clock' \in Nat, clock <= clock'
  PROVE  /\ entitled' \in [AccessPlayers -> Nat]
         /\ \A p \in AccessPlayers : /\ entitled[p] <= entitled'[p] /\ entitled'[p] <= clock'
                                     /\ Entitled(p) => entitled'[p] = clock
                                     /\ entitled[p] \in Nat /\ entitled'[p] \in Nat
<1> QED
  BY DEF AccessInv, AccessTypes, AccessNext

(* What is remembered of the list moves with the clock; the last answer    *)
(* only with an answer to a player from the file source.                   *)
LEMMA SeenMoves ==
  ASSUME AccessInv, AccessNext, clock' \in Nat, clock <= clock'
  PROVE  /\ SeenOK'
         /\ seen.bad \in Int /\ seen'.bad \in Int /\ seen.bad <= seen'.bad
         /\ seen.asked \in Int /\ seen'.asked \in Int
         /\ Readable => seen'.bad = seen.bad
         /\ ~Readable => seen'.bad = clock
         /\ Silent \/ rule.source # "file" \/ answer'.player = Nobody \/ ~Steady => seen'.asked = seen.asked
         /\ seen'.asked = seen.asked \/ seen'.asked = clock
<1>1. clock \in Nat /\ seen \in [ok : Int, bad : Int, asked : Int] /\ seen.bad <= clock /\ seen.asked <= clock
  BY DEF AccessInv, AccessTypes, SeenOK
<1>2. Silent => answer'.player = Nobody
  BY DEF Silent, NoAnswer
<1>3. seen' = [ok |-> IF Readable THEN clock ELSE seen.ok,
               bad |-> IF Readable THEN seen.bad ELSE clock,
               asked |-> IF rule.source = "file" /\ Steady /\ answer'.player # Nobody
                         THEN clock ELSE seen.asked]
  BY DEF AccessNext
<1>4. /\ seen'.ok = (IF Readable THEN clock ELSE seen.ok)
      /\ seen'.bad = (IF Readable THEN seen.bad ELSE clock)
      /\ seen'.asked = (IF rule.source = "file" /\ Steady /\ answer'.player # Nobody
                        THEN clock ELSE seen.asked)
  BY <1>3
<1>5. seen' \in [ok : Int, bad : Int, asked : Int]
  BY <1>1, <1>3
<1> QED
  BY <1>1, <1>2, <1>4, <1>5 DEF SeenOK

(* A call at work has the fields of one.                                   *)
LEMMA AskKinds ==
  ASSUME AccessTypes, NEW c \in AccessCalls
  PROVE  /\ asking[c].pc # "idle" => asking[c] # NotAsking
         /\ asking[c] # NotAsking => asking[c] \in AskRecord /\ asking[c].result \in EntryRecord
                                     /\ asking[c].player \in AccessPlayers
<1> QED
  BY DEF AccessTypes, AskRecord, NotAsking

(* Fresh entries stay fresh, and so do the calls while the clock stands.   *)
LEMMA FreshStays ==
  ASSUME AccessInv, AccessNext, clock' \in Nat, clock <= clock', rule' = rule
  PROVE  /\ \A e \in EntryRecord : EntryFresh(e) => \A p \in e.members : e.fetched <= entitled'[p] + FetchTime
         /\ clock' = clock => \A a \in AskRecord : AskFresh(a) =>
              /\ a.pc # "ask" => rule'.source # "file"
              /\ a.pc \in {"fetch", "fill"} => a.from <= clock' /\ clock' <= a.from + FetchTime
              /\ a.pc = "fill" => \A p \in a.result.members : a.from <= entitled'[p]
              /\ a.pc = "ready" => \A p \in a.result.members : clock' <= entitled'[p] + CacheTTL - 1 + FetchTime
<1>1. \A p \in AccessPlayers : entitled[p] <= entitled'[p] /\ entitled[p] \in Nat /\ entitled'[p] \in Nat
  BY EntitledGrows
<1>2. FetchTime \in Nat /\ CacheTTL \in Nat /\ clock \in Nat
  BY AccessAssumption DEF AccessInv, AccessTypes
<1>3. ASSUME NEW e \in EntryRecord, EntryFresh(e), NEW p \in e.members PROVE e.fetched <= entitled'[p] + FetchTime
  <2>1. p \in AccessPlayers /\ e.fetched \in Nat /\ e.fetched <= entitled[p] + FetchTime
    BY <1>3 DEF EntryRecord, EntryFresh
  <2> QED
    BY <1>1, <1>2, <2>1
<1>4. ASSUME NEW a \in AskRecord, NEW p \in a.result.members
      PROVE  /\ a.from <= entitled[p] => a.from <= entitled'[p]
             /\ clock <= entitled[p] + CacheTTL - 1 + FetchTime => clock <= entitled'[p] + CacheTTL - 1 + FetchTime
  <2>1. p \in AccessPlayers /\ a.from \in Nat
    BY <1>4 DEF AskRecord, EntryRecord
  <2> QED
    BY <1>1, <1>2, <2>1
<1> QED
  BY <1>3, <1>4 DEF AskFresh

(* One call moves on and one entry at most is written while the list, the  *)
(* roster and the clock stay.                                              *)
LEMMA AccessCallMoves ==
  ASSUME AccessInv, AccessNext, NEW c \in AccessCalls, NEW a \in AskRecord \cup {NotAsking},
         asking' = [asking EXCEPT ![c] = a],
         a # NotAsking => AskFresh(a)',
         current' \in [CacheKeys -> EntryRecord \cup {NoEntry}],
         \A key \in CacheKeys : \/ current'[key] = current[key] \/ current'[key] = NoEntry
                                \/ current'[key].members = {},
         rule' = rule, list' = list, clock' = clock, RosterFresh', roster' \in RosterRecord
  PROVE  AccessInv'
<1>1. clock' \in Nat /\ clock <= clock'
  BY DEF AccessInv, AccessTypes
<1>2. /\ entitled' \in [AccessPlayers -> Nat] /\ \A p \in AccessPlayers : entitled'[p] <= clock'
  BY <1>1, EntitledGrows
<1>3. AccessTypes'
  BY <1>1, <1>2 DEF AccessInv, AccessTypes
<1>4. ASSUME NEW key \in CacheKeys, current'[key] # NoEntry PROVE EntryFresh(current[key])'
  <2>1. CASE current'[key].members = {}
    BY <2>1 DEF EntryFresh
  <2>2. CASE current'[key] = current[key]
    <3>1. current[key] \in EntryRecord /\ EntryFresh(current[key])
      BY <1>4, <2>2 DEF AccessInv, AccessTypes
    <3>2. \A p \in current[key].members : current[key].fetched <= entitled'[p] + FetchTime
      BY <1>1, <3>1, FreshStays
    <3> QED
      BY <2>2, <3>2 DEF EntryFresh
  <2> QED
    BY <1>4, <2>1, <2>2
<1>5. ASSUME NEW d \in AccessCalls, asking'[d] # NotAsking PROVE AskFresh(asking[d])'
  <2>1. CASE d = c
    <3>1. asking'[d] = a
      BY <2>1 DEF AccessInv, AccessTypes
    <3> QED
      BY <1>5, <3>1 DEF AskFresh
  <2>2. CASE d # c
    <3>1. asking'[d] = asking[d] /\ asking[d] \in AskRecord /\ AskFresh(asking[d])
      BY <1>5, <2>2 DEF AccessInv, AccessTypes
    <3> QED
      BY <1>1, <3>1, FreshStays DEF AskFresh
  <2> QED
    BY <2>1, <2>2
<1> QED
  BY <1>1, <1>2, <1>3, <1>4, <1>5, SeenMoves DEF AccessInv

(* The roster stays fresh while nobody touches it or the list.             *)
LEMMA RosterStays ==
  ASSUME AccessInv, AccessNext, clock' \in Nat, clock <= clock', roster' = roster, list' = list, rule' = rule,
         Silent \/ rule.source # "file" \/ answer'.player = Nobody \/ ~Steady
  PROVE  RosterFresh'
<1>1. \A p \in AccessPlayers : entitled[p] <= entitled'[p] /\ entitled[p] \in Nat /\ entitled'[p] \in Nat
  BY EntitledGrows
<1>2. roster.checked \in Int /\ roster.members \subseteq AccessPlayers /\ FileStatInterval \in Nat
  BY AccessAssumption DEF AccessInv, AccessTypes, RosterRecord
<1>3. /\ seen'.asked = seen.asked /\ seen.asked \in Int
      /\ seen.bad \in Int /\ seen'.bad \in Int /\ seen.bad <= seen'.bad
  BY SeenMoves
<1> QED
  BY <1>1, <1>2, <1>3 DEF AccessInv, RosterFresh


(* A step without an answer, and one whose answer is not "open", break no  *)
(* promise.                                                                *)
LEMMA SilentHolds ==
  ASSUME Silent
  PROVE  RemovedLosesAccess'
<1> QED
  BY DEF Silent, NoAnswer, RemovedLosesAccess

(* Only a decision in favour opens the build.                              *)
LEMMA AnsweredIs ==
  ASSUME NEW handler \in Handler, NEW player, NEW allowed, Answered(handler, player, allowed)
  PROVE  answer'.reply = "open" => allowed /\ answer'.handler = handler /\ answer'.player = player
<1>1. answer' = [reply |-> Reply(handler, allowed), handler |-> handler, player |-> player]
  BY DEF Answered
<1>2. Reply(handler, allowed) = "open" => allowed
  BY DEF Reply, ListProfiles, GetManifest, allowedObject, Handler
<1> QED
  BY <1>1, <1>2

(* A decision in favour of someone entitled recently enough.               *)
LEMMA DecidesHolds ==
  ASSUME NEW c \in AccessCalls, NEW allowed, NEW error, Decides(c, allowed, error),
         asking[c].player \in AccessPlayers, rule' = rule,
         allowed /\ ~error => rule.failOpen \/ AsOf' <= entitled'[asking[c].player] + Lag
  PROVE  RemovedLosesAccess' /\ asking' = [asking EXCEPT ![c] = NotAsking]
<1>0. PICK ok : ok = Decide(TRUE, allowed, error)
  OBVIOUS
<1>1. PICK handler \in Handler : Answered(handler, asking[c].player, ok)
  BY <1>0 DEF Decides
<1>2. answer'.reply = "open" => /\ ok /\ answer'.player = asking[c].player
  BY <1>1, AnsweredIs
<1>3. ok => allowed /\ ~error
  BY <1>0 DEF Decide
<1>4. asking[c].player # Nobody
  BY NobodyAssumption
<1>5. Lag' = Lag
  BY DEF Lag
<1>6. RemovedLosesAccess'
  <2> DEFINE asOf == AsOf'
  <2>1. answer'.reply = "open" => rule.failOpen \/ asOf <= entitled'[answer'.player] + Lag
    BY <1>2, <1>3
  <2>2. asOf = AsOf'
    OBVIOUS
  <2> QED
    BY <1>2, <1>4, <1>5, <2>1, <2>2 DEF RemovedLosesAccess
<1> QED
  BY <1>6 DEF Decides

(* A request begins to ask.                                                *)
LEMMA RequestKeeps ==
  ASSUME AccessInv, AccessNext, NEW c \in AccessCalls, NEW player \in AccessPlayers, Request(c, player)
  PROVE  AccessInv' /\ RemovedLosesAccess'
<1>1. PICK a : a = [pc |-> "ask", player |-> player, from |-> 0, on |-> Nobody, result |-> Unsettled]
  OBVIOUS
<1>2. /\ asking' = [asking EXCEPT ![c] = a] /\ Silent
      /\ rule' = rule /\ list' = list /\ roster' = roster /\ current' = current /\ clock' = clock
  BY <1>1 DEF Request
<1>3. Unsettled \in EntryRecord
  BY DEF Unsettled, EntryRecord
<1>4. a \in AskRecord /\ a.pc = "ask"
  BY <1>1, <1>3 DEF AskRecord
<1>5. AskFresh(a)'
  BY <1>4 DEF AskFresh
<1>6. clock' \in Nat /\ clock <= clock' /\ roster' \in RosterRecord
      /\ current' \in [CacheKeys -> EntryRecord \cup {NoEntry}]
  BY <1>2 DEF AccessInv, AccessTypes
<1>7. RosterFresh'
  BY <1>2, <1>6, RosterStays
<1>8. AccessInv'
  BY <1>2, <1>4, <1>5, <1>6, <1>7, AccessCallMoves
<1> QED
  BY <1>2, <1>8, SilentHolds

(* fileSource: the roster is recent, or looked at now.                     *)
LEMMA FileLoadKeeps ==
  ASSUME AccessInv, AccessNext, NEW c \in AccessCalls, fileLoad(c)
  PROVE  AccessInv' /\ RemovedLosesAccess'
<1> DEFINE player == asking[c].player
<1>1. /\ asking[c].pc = "ask" /\ rule.source = "file"
      /\ rule' = rule /\ list' = list /\ current' = current /\ clock' = clock
  BY DEF fileLoad
<1>2. asking[c] # NotAsking /\ player \in AccessPlayers
  BY <1>1, AskKinds DEF AccessInv
<1>3. clock' \in Nat /\ clock <= clock' /\ clock \in Nat /\ roster \in RosterRecord /\ list \in ListRecord
      /\ current' \in [CacheKeys -> EntryRecord \cup {NoEntry}] /\ FileStatInterval \in Nat \ {0}
  BY <1>1, AccessAssumption DEF AccessInv, AccessTypes
<1>4. Lag = FileStatInterval - 1
  BY <1>1 DEF Lag
<1>5. /\ \A p \in AccessPlayers : /\ entitled[p] <= entitled'[p] /\ entitled[p] \in Nat /\ entitled'[p] \in Nat
                                  /\ Entitled(p) => entitled'[p] = clock
  BY <1>3, EntitledGrows
<1>6. /\ roster.members \subseteq AccessPlayers /\ list.members \subseteq AccessPlayers
      /\ roster.stamp \in Int /\ roster.checked \in Int /\ list.stamp \in Nat
  BY <1>3 DEF RosterRecord, ListRecord
<1>9. /\ AsOf' = IF Steady THEN clock ELSE seen'.asked
      /\ ~Steady => seen'.asked = seen.asked
      /\ seen'.asked = seen.asked \/ seen'.asked = clock
      /\ seen.asked \in Int /\ seen'.asked \in Int /\ seen.bad \in Int /\ seen'.bad \in Int
      /\ seen.bad <= seen'.bad /\ seen.asked <= clock
      /\ ~Readable => seen'.bad = clock
  <2>1. /\ Readable => seen'.bad = seen.bad
        /\ ~Readable => seen'.bad = clock
        /\ ~Steady => seen'.asked = seen.asked
        /\ seen'.asked = seen.asked \/ seen'.asked = clock
        /\ seen.asked \in Int /\ seen'.asked \in Int /\ seen.bad \in Int /\ seen'.bad \in Int
        /\ seen.bad <= seen'.bad
    BY <1>3, SeenMoves
  <2>2. Readable' = Readable /\ Lag' = Lag
    BY <1>1 DEF Readable, Lag
  <2>3. Steady' = Steady
    BY <1>1, <2>1, <2>2 DEF Steady
  <2>4. seen.asked <= clock
    BY DEF AccessInv, SeenOK
  <2> QED
    BY <1>1, <2>1, <2>3, <2>4 DEF AsOf
<1>7. CASE Recent /\ Decides(c, player \in roster.members, FALSE) /\ roster' = roster
  <2>0. ASSUME NEW p \in roster.members
        PROVE  /\ Steady => clock <= entitled'[p] + Lag
               /\ seen'.asked <= entitled'[p] + Lag
    <3>1. /\ roster.checked <= entitled[p] \/ roster.checked <= seen.bad
          /\ seen.asked <= entitled[p] + FileStatInterval - 1
          /\ clock - roster.checked < FileStatInterval
      BY <1>1, <1>7, <2>0 DEF Recent, AccessInv, RosterFresh
    <3>2. Steady => clock > seen.bad + FileStatInterval - 1
      BY <1>3, <1>4, <1>9 DEF Steady
    <3>3. entitled[p] <= entitled'[p] /\ entitled[p] \in Nat /\ entitled'[p] \in Nat
      BY <1>5, <1>6, <2>0
    <3>4. Steady => clock <= entitled'[p] + Lag
      BY <1>3, <1>4, <1>6, <1>9, <3>1, <3>2, <3>3
    <3> QED
      BY <1>3, <1>4, <1>9, <3>1, <3>3, <3>4
  <2>1. ASSUME player \in roster.members PROVE AsOf' <= entitled'[player] + Lag
    BY <1>9, <2>0, <2>1
  <2>2. RemovedLosesAccess' /\ asking' = [asking EXCEPT ![c] = NotAsking]
    BY <1>1, <1>2, <1>7, <2>1, DecidesHolds
  <2>3. RosterFresh'
    <3>1. \A p \in roster.members : /\ entitled[p] <= entitled'[p] /\ entitled[p] \in Nat /\ entitled'[p] \in Nat
                                    /\ seen'.asked <= entitled'[p] + FileStatInterval - 1
      BY <1>3, <1>4, <1>5, <1>6, <1>9, <2>0
    <3> QED
      BY <1>1, <1>6, <1>7, <1>9, <3>1 DEF AccessInv, RosterFresh
  <2>4. AccessInv'
    BY <1>1, <1>3, <1>7, <2>2, <2>3, AccessCallMoves
  <2> QED
    BY <2>2, <2>4
<1>8. CASE ~Recent
  <2> DEFINE looked == [roster EXCEPT !.checked = clock]
             had == roster.stamp >= 0
             kept == had /\ (list.state = "gone" \/ (list.state = "ok" /\ list.stamp = roster.stamp))
             fresh == [looked EXCEPT !.members = list.members, !.stamp = list.stamp]
  <2>1. /\ looked \in RosterRecord /\ looked.checked = clock
        /\ looked.members = roster.members /\ looked.stamp = roster.stamp
    BY <1>3 DEF RosterRecord
  <2>2. /\ fresh \in RosterRecord /\ fresh.checked = clock
        /\ fresh.members = list.members /\ fresh.stamp = list.stamp
    <3> DEFINE first == [looked EXCEPT !.members = list.members]
    <3> HIDE DEF looked
    <3>1. first \in RosterRecord /\ first.checked = clock /\ first.members = list.members
      BY <1>3, <1>6, <2>1 DEF RosterRecord
    <3>2. fresh = [first EXCEPT !.stamp = list.stamp]
      OBVIOUS
    <3> HIDE DEF first, fresh
    <3> QED
      BY <1>3, <1>6, <3>1, <3>2 DEF RosterRecord
  <2>3. \/ kept /\ roster' = looked /\ Decides(c, player \in roster.members, FALSE)
        \/ ~kept /\ list.state = "ok" /\ roster' = fresh /\ Decides(c, player \in list.members, FALSE)
        \/ ~kept /\ list.state # "ok" /\ roster' = looked /\ Decides(c, FALSE, TRUE)
    BY <1>8 DEF fileLoad
  <2> HIDE DEF looked, fresh
  <2>4. ASSUME NEW p \in AccessPlayers, list.state = "ok", p \in list.members
        PROVE  entitled'[p] = clock
    BY <1>1, <1>5, <2>4 DEF Entitled, Readable
  <2>5. ASSUME had, NEW p \in roster.members, list.state = "ok", list.stamp = roster.stamp
        PROVE  entitled'[p] = clock
    BY <1>6, <2>4, <2>5 DEF AccessInv, RosterFresh
  <2>9. ASSUME had, NEW p \in roster.members, list.state # "ok"
        PROVE  /\ seen'.asked <= entitled'[p] + Lag /\ clock <= seen'.bad
               /\ AsOf' = seen'.asked
    <3>1. ~Readable /\ ~Steady
      BY <2>9 DEF Readable, Steady
    <3>2. /\ seen.asked <= entitled[p] + FileStatInterval - 1
          /\ entitled[p] <= entitled'[p] /\ entitled[p] \in Nat /\ entitled'[p] \in Nat
      BY <1>1, <1>5, <1>6, <2>9 DEF AccessInv, RosterFresh
    <3> QED
      BY <1>3, <1>4, <1>9, <3>1, <3>2
  <2>6. CASE kept /\ roster' = looked /\ Decides(c, player \in roster.members, FALSE)
    <3>0. ASSUME NEW p \in roster.members
          PROVE  /\ clock <= entitled'[p] \/ clock <= seen'.bad
                 /\ seen'.asked <= entitled'[p] + Lag
                 /\ AsOf' <= entitled'[p] + Lag
      <4>1. CASE list.state # "ok"
        BY <2>6, <2>9, <4>1
      <4>2. CASE list.state = "ok"
        <5>1. entitled'[p] = clock
          BY <2>5, <2>6, <4>2
        <5> QED
          BY <1>3, <1>4, <1>9, <5>1
      <4> QED
        BY <4>1, <4>2
    <3>2. player \in roster.members => AsOf' <= entitled'[player] + Lag
      BY <3>0
    <3>3. RemovedLosesAccess' /\ asking' = [asking EXCEPT ![c] = NotAsking]
      BY <1>1, <1>2, <2>6, <3>2, DecidesHolds
    <3>4. RosterFresh'
      <4>1. \A p \in roster.members : /\ clock <= entitled'[p] \/ clock <= seen'.bad
                                      /\ seen'.asked <= entitled'[p] + FileStatInterval - 1
        BY <1>3, <1>4, <1>5, <1>6, <1>9, <3>0
      <4> QED
        BY <1>1, <1>3, <2>1, <2>6, <4>1 DEF AccessInv, RosterFresh
    <3>5. AccessInv'
      BY <1>1, <1>3, <2>1, <2>6, <3>3, <3>4, AccessCallMoves
    <3> QED
      BY <3>3, <3>5
  <2>7. CASE ~kept /\ list.state = "ok" /\ roster' = fresh /\ Decides(c, player \in list.members, FALSE)
    <3>1. \A p \in list.members : entitled'[p] = clock
      BY <1>6, <2>4, <2>7
    <3>2. player \in list.members => AsOf' <= entitled'[player] + Lag
      BY <1>1, <1>3, <1>4, <1>9, <3>1
    <3>3. RemovedLosesAccess' /\ asking' = [asking EXCEPT ![c] = NotAsking]
      BY <1>1, <1>2, <2>7, <3>2, DecidesHolds
    <3>4. RosterFresh'
      <4>1. \A p \in list.members : /\ clock <= entitled'[p] /\ seen'.asked <= entitled'[p] + FileStatInterval - 1
        BY <1>3, <1>9, <3>1
      <4> QED
        BY <1>1, <1>3, <1>6, <2>2, <2>7, <4>1 DEF RosterFresh
    <3>5. AccessInv'
      BY <1>1, <1>3, <2>2, <2>7, <3>3, <3>4, AccessCallMoves
    <3> QED
      BY <3>3, <3>5
  <2>8. CASE ~kept /\ list.state # "ok" /\ roster' = looked /\ Decides(c, FALSE, TRUE)
    <3>1. had => \A p \in roster.members : /\ clock <= seen'.bad
                                            /\ seen'.asked <= entitled'[p] + FileStatInterval - 1
      <4>1. ASSUME had, NEW p \in roster.members
            PROVE  clock <= seen'.bad /\ seen'.asked <= entitled'[p] + FileStatInterval - 1
        <5>1. clock <= seen'.bad /\ seen'.asked <= entitled'[p] + Lag /\ entitled'[p] \in Nat
          BY <1>5, <1>6, <2>8, <2>9, <4>1
        <5> QED
          BY <1>3, <1>4, <1>9, <5>1
      <4> QED
        BY <4>1
    <3>2. RemovedLosesAccess' /\ asking' = [asking EXCEPT ![c] = NotAsking]
      BY <1>1, <1>2, <2>8, DecidesHolds
    <3>3. RosterFresh'
      BY <1>1, <1>3, <2>1, <2>8, <3>1 DEF AccessInv, RosterFresh
    <3>4. AccessInv'
      BY <1>1, <1>3, <2>1, <2>8, <3>2, <3>3, AccessCallMoves
    <3> QED
      BY <3>2, <3>4
  <2> QED
    BY <2>3, <2>6, <2>7, <2>8
<1> QED
  BY <1>7, <1>8 DEF fileLoad

(* httpSource: a live entry is used, a pending one is waited for, and      *)
(* otherwise this call fetches.                                            *)
LEMMA EntryForKeeps ==
  ASSUME AccessInv, AccessNext, NEW c \in AccessCalls, entryFor(c)
  PROVE  AccessInv' /\ RemovedLosesAccess'
<1> DEFINE key == Key(asking[c].player)
           room == IF Cardinality(Stored) < MaxCachedEntries THEN current ELSE Evicted
<1>1. /\ asking[c].pc = "ask" /\ rule.source # "file" /\ Silent
      /\ rule' = rule /\ list' = list /\ roster' = roster /\ clock' = clock
  BY DEF entryFor
<1>2. asking[c] \in AskRecord /\ asking[c] # NotAsking /\ key \in CacheKeys
  BY <1>1, AskKinds DEF AccessInv, Key, CacheKeys
<1>3. clock' \in Nat /\ clock <= clock' /\ clock \in Nat /\ roster' \in RosterRecord
      /\ FetchTime \in Nat /\ CacheTTL \in Nat /\ ErrorTTL \in Nat
  BY <1>1, AccessAssumption DEF AccessInv, AccessTypes
<1>4. RosterFresh'
  BY <1>1, <1>3, RosterStays
<1>5. RemovedLosesAccess'
  BY <1>1, SilentHolds
<1>6. CASE ~Usable(key)
  <2>1. PICK a : a = [asking[c] EXCEPT !.pc = "fetch", !.from = clock]
    OBVIOUS
  <2>2. PICK e : e = [Unsettled EXCEPT !.by = c]
    OBVIOUS
  <2>3. asking' = [asking EXCEPT ![c] = a]
    <3>1. asking' = [asking EXCEPT ![c].pc = "fetch", ![c].from = clock]
      BY <1>6 DEF entryFor
    <3> QED
      BY <2>1, <3>1 DEF AccessInv, AccessTypes
  <2>4. current' = [room EXCEPT ![key] = e]
    BY <1>6, <2>2 DEF entryFor
  <2>5. a \in AskRecord /\ a.pc = "fetch" /\ a.from = clock
    BY <1>2, <1>3, <2>1 DEF AskRecord
  <2>6. e \in EntryRecord /\ e.members = {}
    BY <2>2 DEF Unsettled, EntryRecord
  <2>7. /\ room \in [CacheKeys -> EntryRecord \cup {NoEntry}]
        /\ \A k \in CacheKeys : room[k] = current[k] \/ room[k] = NoEntry
    BY DEF AccessInv, AccessTypes, Evicted
  <2> HIDE DEF room, key
  <2>8. AskFresh(a)'
    BY <1>1, <1>3, <2>5 DEF AskFresh
  <2>9. /\ current' \in [CacheKeys -> EntryRecord \cup {NoEntry}]
        /\ \A k \in CacheKeys : current'[k] = current[k] \/ current'[k] = NoEntry \/ current'[k].members = {}
    BY <1>2, <2>4, <2>6, <2>7
  <2> QED
    BY <1>1, <1>3, <1>4, <1>5, <2>3, <2>5, <2>8, <2>9, AccessCallMoves
<1>7. CASE Usable(key) /\ Settled(key)
  <2>1. PICK a : a = [asking[c] EXCEPT !.pc = "ready", !.result = current[key]]
    OBVIOUS
  <2>2. asking' = [asking EXCEPT ![c] = a] /\ current' = current
    BY <1>7, <2>1 DEF entryFor
  <2>3. current[key] \in EntryRecord /\ EntryFresh(current[key]) /\ live(key)
    BY <1>2, <1>7 DEF Usable, Stored, AccessInv, AccessTypes
  <2>4. a \in AskRecord /\ a.pc = "ready" /\ a.result = current[key]
    BY <1>2, <2>1, <2>3 DEF AskRecord
  <2> HIDE DEF key
  <2>5. clock - current[key].fetched < CacheTTL /\ current[key].fetched \in Nat
    BY <1>3, <2>3 DEF live, EntryRecord
  <2>6. ASSUME NEW p \in current[key].members PROVE clock' <= entitled'[p] + CacheTTL - 1 + FetchTime
    <3>1. p \in AccessPlayers /\ current[key].fetched <= entitled[p] + FetchTime
      BY <2>3, <2>6 DEF EntryRecord, EntryFresh
    <3>2. entitled[p] <= entitled'[p] /\ entitled[p] \in Nat /\ entitled'[p] \in Nat
      BY <1>3, <3>1, EntitledGrows
    <3> QED
      BY <1>1, <1>3, <2>5, <3>1, <3>2
  <2>7. AskFresh(a)'
    BY <1>1, <2>4, <2>6 DEF AskFresh
  <2>8. current' \in [CacheKeys -> EntryRecord \cup {NoEntry}]
    BY <2>2 DEF AccessInv, AccessTypes
  <2> QED
    BY <1>1, <1>3, <1>4, <1>5, <2>2, <2>4, <2>7, <2>8, AccessCallMoves
<1>8. CASE Usable(key) /\ ~Settled(key)
  <2>1. PICK a : a = [asking[c] EXCEPT !.pc = "wait", !.on = current[key].by]
    OBVIOUS
  <2>2. asking' = [asking EXCEPT ![c] = a] /\ current' = current
    BY <1>8, <2>1 DEF entryFor
  <2>3. current[key] \in EntryRecord
    BY <1>2, <1>8 DEF Usable, Stored, AccessInv, AccessTypes
  <2>4. a \in AskRecord /\ a.pc = "wait"
    BY <1>2, <2>1, <2>3 DEF AskRecord, EntryRecord
  <2>5. AskFresh(a)'
    BY <1>1, <2>4 DEF AskFresh
  <2>6. current' \in [CacheKeys -> EntryRecord \cup {NoEntry}]
    BY <2>2 DEF AccessInv, AccessTypes
  <2> QED
    BY <1>1, <1>3, <1>4, <1>5, <2>2, <2>4, <2>5, <2>6, AccessCallMoves
<1> QED
  BY <1>6, <1>7, <1>8


(* The service answers with the list of that moment.                       *)
LEMMA FetchKeeps ==
  ASSUME AccessInv, AccessNext, NEW c \in AccessCalls, fetch(c)
  PROVE  AccessInv' /\ RemovedLosesAccess'
<1> DEFINE members == IF rule.source = "check" THEN list.members \cap {asking[c].player} ELSE list.members
           told == IF list.state = "ok" THEN members ELSE {}
<1>1. /\ asking[c].pc = "fetch" /\ Silent
      /\ rule' = rule /\ list' = list /\ roster' = roster /\ clock' = clock /\ current' = current
  BY DEF fetch
<1>2. asking[c] \in AskRecord /\ asking[c] # NotAsking /\ AskFresh(asking[c])
  BY <1>1, AskKinds DEF AccessInv
<1>3. clock' \in Nat /\ clock <= clock' /\ clock \in Nat /\ roster' \in RosterRecord /\ list \in ListRecord
      /\ current' \in [CacheKeys -> EntryRecord \cup {NoEntry}]
  BY <1>1 DEF AccessInv, AccessTypes
<1>4. PICK result : result = [Unsettled EXCEPT !.members = told, !.error = list.state # "ok"]
  OBVIOUS
<1>5. PICK a : a = [asking[c] EXCEPT !.pc = "fill", !.result = result]
  OBVIOUS
<1>6. asking' = [asking EXCEPT ![c] = a]
  <2>1. asking' = [asking EXCEPT ![c].pc = "fill", ![c].result = result]
    BY <1>4 DEF fetch
  <2> QED
    BY <1>5, <2>1 DEF AccessInv, AccessTypes
<1>7. told \subseteq list.members /\ list.members \subseteq AccessPlayers
  BY <1>3 DEF ListRecord
<1> HIDE DEF told
<1>8. result \in EntryRecord /\ result.members = told
  <2>1. (list.state # "ok") \in BOOLEAN
    OBVIOUS
  <2> QED
    BY <1>4, <1>7, <2>1 DEF Unsettled, EntryRecord
<1>9. a \in AskRecord /\ a.pc = "fill" /\ a.result = result /\ a.from = asking[c].from /\ a.from \in Nat
  BY <1>2, <1>5, <1>8 DEF AskRecord
<1>10. a.from <= clock /\ clock <= a.from + FetchTime /\ rule.source # "file"
  BY <1>1, <1>2, <1>9 DEF AskFresh
<1>11. \A p \in told : entitled'[p] = clock
  <2>1. told # {} => Readable
    BY DEF told, Readable
  <2> QED
    BY <1>3, <1>7, <2>1, EntitledGrows DEF Entitled
<1>12. AskFresh(a)'
  BY <1>1, <1>8, <1>9, <1>10, <1>11 DEF AskFresh
<1>13. RosterFresh'
  BY <1>1, <1>3, RosterStays
<1> QED
  BY <1>1, <1>3, <1>6, <1>9, <1>12, <1>13, AccessCallMoves, SilentHolds

(* fill hands the result to the entry and to every call that waited.       *)
LEMMA FillKeeps ==
  ASSUME AccessInv, AccessNext, NEW c \in AccessCalls, fill(c)
  PROVE  AccessInv' /\ RemovedLosesAccess'
<1>1. /\ asking[c].pc = "fill" /\ Silent
      /\ rule' = rule /\ list' = list /\ roster' = roster /\ clock' = clock
  BY DEF fill
<1>2. asking[c] \in AskRecord /\ asking[c].result \in EntryRecord /\ AskFresh(asking[c])
  BY <1>1, AskKinds DEF AccessInv
<1>3. /\ clock' \in Nat /\ clock <= clock' /\ clock \in Nat
      /\ FetchTime \in Nat /\ CacheTTL \in Nat \ {0}
  BY <1>1, AccessAssumption DEF AccessInv, AccessTypes
<1>4. PICK result : result = [asking[c].result EXCEPT !.fetched = clock]
  OBVIOUS
<1>5. result \in EntryRecord /\ result.fetched = clock /\ result.members = asking[c].result.members
  BY <1>2, <1>3, <1>4 DEF EntryRecord
<1> DEFINE done == {d \in AccessCalls : d = c \/ (asking[d].pc = "wait" /\ asking[d].on = c)}
<1>6. /\ asking' = [d \in AccessCalls |-> IF d \in done
              THEN [asking[d] EXCEPT !.pc = "ready", !.from = 0, !.on = Nobody, !.result = result]
              ELSE asking[d]]
      /\ current' = [key \in CacheKeys |-> IF current[key].by = c THEN result ELSE current[key]]
  BY <1>4 DEF fill
<1>7. /\ \A d \in done : /\ d \in AccessCalls /\ asking[d] \in AskRecord
      /\ rule.source # "file"
  BY <1>1, <1>2, AskKinds DEF AccessInv, AskFresh
<1> HIDE DEF done
<1>8. /\ entitled' \in [AccessPlayers -> Nat]
      /\ \A p \in AccessPlayers : /\ entitled[p] <= entitled'[p] /\ entitled'[p] <= clock'
                                  /\ entitled[p] \in Nat /\ entitled'[p] \in Nat
  BY <1>3, EntitledGrows
<1>9. ASSUME NEW p \in result.members PROVE clock <= entitled'[p] + FetchTime /\ entitled'[p] \in Nat
  <2>1. p \in AccessPlayers /\ asking[c].from \in Nat
    BY <1>2, <1>5, <1>9 DEF EntryRecord, AskRecord
  <2>2. asking[c].from <= entitled[p] /\ clock <= asking[c].from + FetchTime
    BY <1>1, <1>2, <1>5, <1>9 DEF AskFresh
  <2> QED
    BY <1>3, <1>8, <2>1, <2>2
<1>10. ASSUME NEW d \in AccessCalls
       PROVE  /\ asking'[d] \in AskRecord \cup {NotAsking}
              /\ asking'[d] # NotAsking => AskFresh(asking[d])'
  <2>1. CASE d \in done
    <3>1. PICK a : a = [asking[d] EXCEPT !.pc = "ready", !.from = 0, !.on = Nobody, !.result = result]
      OBVIOUS
    <3>2. a \in AskRecord /\ a.pc = "ready" /\ a.result = result
      <4>1. asking[d] \in AskRecord
        BY <1>7, <2>1
      <4>2. PICK b : b = [asking[d] EXCEPT !.pc = "ready", !.from = 0]
        OBVIOUS
      <4>3. b \in AskRecord /\ b.pc = "ready"
        BY <4>1, <4>2 DEF AskRecord
      <4>4. a = [b EXCEPT !.on = Nobody, !.result = result]
        BY <3>1, <4>2
      <4> QED
        BY <1>5, <4>3, <4>4 DEF AskRecord
    <3>3. asking'[d] = a
      BY <1>6, <2>1, <3>1
    <3>4. \A p \in result.members : clock' <= entitled'[p] + CacheTTL - 1 + FetchTime
      BY <1>1, <1>3, <1>9
    <3> QED
      BY <1>1, <1>7, <3>2, <3>3, <3>4 DEF AskFresh
  <2>2. CASE d \notin done
    <3>1. asking'[d] = asking[d] /\ asking[d] \in AskRecord \cup {NotAsking}
      BY <1>6, <2>2 DEF AccessInv, AccessTypes
    <3>2. ASSUME asking[d] # NotAsking PROVE AskFresh(asking[d])'
      <4>1. asking[d] \in AskRecord /\ AskFresh(asking[d])
        BY <3>1, <3>2 DEF AccessInv
      <4> QED
        BY <1>1, <1>3, <3>1, <4>1, FreshStays DEF AskFresh
    <3> QED
      BY <3>1, <3>2
  <2> QED
    BY <2>1, <2>2
<1>11. ASSUME NEW key \in CacheKeys
       PROVE  /\ current'[key] \in EntryRecord \cup {NoEntry}
              /\ current'[key] # NoEntry => EntryFresh(current[key])'
  <2>1. CASE current[key].by = c
    BY <1>1, <1>5, <1>6, <1>9, <2>1 DEF EntryFresh
  <2>2. CASE current[key].by # c
    <3>1. current'[key] = current[key] /\ current[key] \in EntryRecord \cup {NoEntry}
      BY <1>6, <2>2 DEF AccessInv, AccessTypes
    <3>2. ASSUME current[key] # NoEntry PROVE EntryFresh(current[key])'
      <4>1. current[key] \in EntryRecord /\ EntryFresh(current[key])
        BY <3>1, <3>2 DEF AccessInv
      <4> QED
        BY <1>1, <1>3, <3>1, <4>1, FreshStays DEF EntryFresh
    <3> QED
      BY <3>1, <3>2
  <2> QED
    BY <2>1, <2>2
<1>12. /\ asking' \in [AccessCalls -> AskRecord \cup {NotAsking}]
       /\ current' \in [CacheKeys -> EntryRecord \cup {NoEntry}]
  BY <1>6, <1>10, <1>11
<1>13. AccessTypes'
  BY <1>1, <1>8, <1>12 DEF AccessInv, AccessTypes
<1>14. RosterFresh'
  BY <1>1, <1>3, RosterStays
<1>15. AccessInv'
  BY <1>3, <1>8, <1>10, <1>11, <1>13, <1>14, SeenMoves DEF AccessInv
<1> QED
  BY <1>1, <1>15, SilentHolds

(* The decision of a call that has its answer, or gave up waiting.         *)
LEMMA AllowsKeeps ==
  ASSUME AccessInv, AccessNext, NEW c \in AccessCalls, Allows(c)
  PROVE  AccessInv' /\ RemovedLosesAccess'
<1> DEFINE player == asking[c].player
           result == asking[c].result
<1>1. /\ asking[c].pc \in {"wait", "ready"}
      /\ rule' = rule /\ list' = list /\ roster' = roster /\ clock' = clock /\ current' = current
  BY DEF Allows
<1>2. asking[c] \in AskRecord /\ AskFresh(asking[c]) /\ player \in AccessPlayers /\ result \in EntryRecord
  BY <1>1, AskKinds DEF AccessInv
<1>3. /\ clock' \in Nat /\ clock <= clock' /\ clock \in Nat /\ roster' \in RosterRecord
      /\ current' \in [CacheKeys -> EntryRecord \cup {NoEntry}] /\ rule.failOpen \in BOOLEAN
      /\ FetchTime \in Nat /\ CacheTTL \in Nat
  BY <1>1, AccessAssumption DEF AccessInv, AccessTypes, Rule
<1>4. RemovedLosesAccess' /\ asking' = [asking EXCEPT ![c] = NotAsking]
  <2>1. CASE asking[c].pc = "ready" /\ result.error /\ Decides(c, rule.failOpen, ~rule.failOpen)
    <3>1. rule.failOpen /\ ~~rule.failOpen => rule.failOpen
      BY <1>3
    <3> QED
      BY <1>1, <1>2, <2>1, <3>1, DecidesHolds
  <2>2. CASE asking[c].pc = "ready" /\ Decides(c, player \in result.members, FALSE)
    <3>1. ASSUME player \in result.members PROVE AsOf' <= entitled'[player] + Lag
      <4>1. clock <= entitled[player] + CacheTTL - 1 + FetchTime /\ rule.source # "file"
        BY <1>2, <2>2, <3>1 DEF AskFresh
      <4>2. Lag = CacheTTL - 1 + FetchTime
        BY <4>1 DEF Lag
      <4>3. entitled[player] <= entitled'[player] /\ entitled[player] \in Nat /\ entitled'[player] \in Nat
        BY <1>2, <1>3, EntitledGrows
      <4>4. AsOf' = clock'
        BY <1>1, <4>1 DEF AsOf
      <4> QED
        BY <1>1, <1>3, <4>1, <4>2, <4>3, <4>4
    <3> QED
      BY <1>1, <1>2, <2>2, <3>1, DecidesHolds
  <2>3. CASE Decides(c, rule.failOpen, TRUE)
    BY <1>1, <1>2, <2>3, DecidesHolds
  <2> QED
    BY <2>1, <2>2, <2>3 DEF Allows
<1>5. RosterFresh'
  <2>1. rule.source # "file"
    BY <1>1, <1>2 DEF AskFresh
  <2> QED
    BY <1>1, <1>3, <2>1, RosterStays
<1> QED
  BY <1>1, <1>3, <1>4, <1>5, AccessCallMoves

(* A step of nobody's call while the clock stands.                         *)
LEMMA AccessOther ==
  ASSUME AccessInv, AccessNext, asking' = asking, rule' = rule, clock' = clock,
         list' \in ListRecord, roster' \in RosterRecord, RosterFresh',
         current' = current \/ current' = [k \in CacheKeys |-> NoEntry]
  PROVE  AccessInv'
<1>1. clock' \in Nat /\ clock <= clock'
  BY DEF AccessInv, AccessTypes
<1>2. /\ entitled' \in [AccessPlayers -> Nat] /\ \A p \in AccessPlayers : entitled'[p] <= clock'
  BY <1>1, EntitledGrows
<1>3. AccessTypes'
  BY <1>1, <1>2 DEF AccessInv, AccessTypes
<1>4. ASSUME NEW key \in CacheKeys, current'[key] # NoEntry PROVE EntryFresh(current[key])'
  <2>1. current'[key] = current[key] /\ current[key] \in EntryRecord /\ EntryFresh(current[key])
    BY <1>4 DEF AccessInv, AccessTypes
  <2> QED
    BY <1>1, <2>1, FreshStays DEF EntryFresh
<1>5. ASSUME NEW d \in AccessCalls, asking'[d] # NotAsking PROVE AskFresh(asking[d])'
  <2>1. asking'[d] = asking[d] /\ asking[d] \in AskRecord /\ AskFresh(asking[d])
    BY <1>5 DEF AccessInv, AccessTypes
  <2> QED
    BY <1>1, <2>1, FreshStays DEF AskFresh
<1> QED
  BY <1>1, <1>2, <1>3, <1>4, <1>5, SeenMoves DEF AccessInv

(* Time passes: a fetch keeps its deadline, and no call is ready.          *)
LEMMA AccessTickKeeps ==
  ASSUME AccessInv, AccessNext, AccessTick
  PROVE  AccessInv' /\ RemovedLosesAccess'
<1>1. /\ clock' = clock + 1 /\ clock \in Nat /\ clock' \in Nat /\ clock <= clock' /\ Silent /\ FetchTime \in Nat
      /\ rule' = rule /\ list' = list /\ roster' = roster /\ current' = current /\ asking' = asking
  BY AccessAssumption DEF AccessTick, AccessInv, AccessTypes
<1>2. /\ entitled' \in [AccessPlayers -> Nat]
      /\ \A p \in AccessPlayers : /\ entitled[p] <= entitled'[p] /\ entitled'[p] <= clock'
                                  /\ entitled[p] \in Nat /\ entitled'[p] \in Nat
  BY <1>1, EntitledGrows
<1>3. AccessTypes'
  BY <1>1, <1>2 DEF AccessInv, AccessTypes
<1>4. ASSUME NEW key \in CacheKeys, current'[key] # NoEntry PROVE EntryFresh(current[key])'
  <2>1. current'[key] = current[key] /\ current[key] \in EntryRecord /\ EntryFresh(current[key])
    BY <1>1, <1>4 DEF AccessInv, AccessTypes
  <2> QED
    BY <1>1, <2>1, FreshStays DEF EntryFresh
<1>5. ASSUME NEW d \in AccessCalls, asking'[d] # NotAsking PROVE AskFresh(asking[d])'
  <2>1. /\ asking'[d] = asking[d] /\ asking[d] \in AskRecord /\ AskFresh(asking[d])
        /\ asking[d].pc # "ready"
        /\ asking[d].pc \in {"fetch", "fill"} => clock < asking[d].from + FetchTime
    BY <1>1, <1>5 DEF AccessInv, AccessTypes, AccessTick
  <2>2. asking[d].from \in Nat /\ \A p \in asking[d].result.members : p \in AccessPlayers
    BY <2>1 DEF AskRecord, EntryRecord
  <2> QED
    BY <1>1, <1>2, <2>1, <2>2 DEF AskFresh
<1>6. RosterFresh'
  BY <1>1, RosterStays
<1> QED
  BY <1>1, <1>2, <1>3, <1>4, <1>5, <1>6, SilentHolds, SeenMoves DEF AccessInv

(* A guarded build is open only to a player who was on its list at most    *)
(* the cache's lifetime and one fetch ago, whatever fetches, reloads,      *)
(* evictions and outages overlap (access.go:180, http.go:125, file.go:44); *)
(* a list file that cannot be read freezes what the source last went by    *)
(* (file.go:56).  Except under failOpen, and for public objects.           *)
THEOREM RemovedPlayersLoseAccess == AccessSpec => []RemovedLosesAccess
<1>1. AccessInit => AccessInv /\ RemovedLosesAccess
  <2> SUFFICES ASSUME AccessInit PROVE AccessInv /\ RemovedLosesAccess
    OBVIOUS
  <2>1. AccessTypes
    BY RulesAssumption DEF AccessInit, AccessTypes, ListRecord, RosterRecord, NoRoster
  <2>2. RosterFresh
    BY DEF AccessInit, RosterFresh, NoRoster
  <2>3. RemovedLosesAccess
    BY DEF AccessInit, NoAnswer, RemovedLosesAccess
  <2>4. SeenOK
    BY AccessAssumption DEF AccessInit, SeenOK
  <2> QED
    BY <2>1, <2>2, <2>3, <2>4 DEF AccessInit, AccessInv
<1>2. AccessInv /\ RemovedLosesAccess /\ [AccessNext]_accessVars => AccessInv' /\ RemovedLosesAccess'
  <2> SUFFICES ASSUME AccessInv, RemovedLosesAccess, [AccessNext]_accessVars
               PROVE  AccessInv' /\ RemovedLosesAccess'
    OBVIOUS
  <2>1. CASE UNCHANGED accessVars
    BY <2>1 DEF accessVars, AccessInv, AccessTypes, SeenOK, RosterFresh, EntryFresh, AskFresh,
                RemovedLosesAccess, Lag, AsOf, Steady, Readable
  <2>2. ASSUME AccessNext, NEW handler \in Handler, NEW state \in TokenState, RequestUnnamed(handler, state)
        PROVE  AccessInv' /\ RemovedLosesAccess'
    <3>1. /\ rule' = rule /\ list' = list /\ roster' = roster /\ current' = current
          /\ asking' = asking /\ clock' = clock /\ clock \in Nat /\ list \in ListRecord /\ roster \in RosterRecord
      BY <2>2 DEF RequestUnnamed, AccessInv, AccessTypes
    <3>2. RosterFresh'
      <4>1. answer'.player = Nobody
        <5>1. \A ok : Answered(handler, Nobody, ok) => answer'.player = Nobody
          BY DEF Answered
        <5>2. \/ \E ok : Answered(handler, Nobody, ok)
              \/ answer' = [reply |-> "signin", handler |-> handler, player |-> Nobody]
          BY <2>2 DEF RequestUnnamed
        <5> QED
          BY <5>1, <5>2
      <4> QED
        BY <2>2, <3>1, <4>1, RosterStays
    <3>3. AccessInv'
      BY <2>2, <3>1, <3>2, AccessOther
    <3>4. RemovedLosesAccess'
      <4>1. CASE handler = "object" /\ ~Guarded
        <5>1. Answered(handler, Nobody, TRUE)
          BY <2>2, <4>1 DEF RequestUnnamed
        <5>2. answer'.reply = "open" => answer'.handler = "object"
          BY <4>1, <5>1, AnsweredIs
        <5> QED
          BY <3>1, <4>1, <5>2 DEF Guarded, RemovedLosesAccess
      <4>2. CASE ~(handler = "object" /\ ~Guarded)
        <5>1. \/ answer' = [reply |-> "signin", handler |-> handler, player |-> Nobody]
              \/ Answered(handler, Nobody, Decide(FALSE, TRUE, FALSE))
          BY <2>2, <4>2 DEF RequestUnnamed
        <5>2. answer'.reply # "open"
          <6>1. CASE answer' = [reply |-> "signin", handler |-> handler, player |-> Nobody]
            BY <6>1
          <6>2. CASE Answered(handler, Nobody, Decide(FALSE, TRUE, FALSE))
            <7>1. PICK no : no = Decide(FALSE, TRUE, FALSE)
              OBVIOUS
            <7>2. ~no /\ Answered(handler, Nobody, no)
              BY <6>2, <7>1 DEF Decide
            <7> QED
              BY <7>2, AnsweredIs
          <6> QED
            BY <5>1, <6>1, <6>2
        <5> QED
          BY <5>2 DEF RemovedLosesAccess
      <4> QED
        BY <4>1, <4>2
    <3> QED
      BY <3>3, <3>4
  <2>3. ASSUME AccessNext, Reload PROVE AccessInv' /\ RemovedLosesAccess'
    <3>1. /\ rule' = rule /\ list' = list /\ asking' = asking /\ clock' = clock /\ Silent
          /\ roster' = NoRoster /\ current' = [k \in CacheKeys |-> NoEntry] /\ list \in ListRecord
      BY <2>3 DEF Reload, AccessInv, AccessTypes
    <3>2. NoRoster \in RosterRecord /\ NoRoster.stamp = -1
      BY DEF NoRoster, RosterRecord
    <3>3. list.stamp \in Nat
      BY <3>1 DEF ListRecord
    <3>4. RosterFresh'
      BY <3>1, <3>2, <3>3 DEF RosterFresh
    <3> QED
      BY <2>3, <3>1, <3>2, <3>4, AccessOther, SilentHolds
  <2>4. ASSUME AccessNext, NEW members \in SUBSET AccessPlayers, NEW state \in {"ok", "gone", "broken"},
               EditList(members, state)
        PROVE  AccessInv' /\ RemovedLosesAccess'
    <3>1. /\ rule' = rule /\ roster' = roster /\ current' = current /\ asking' = asking /\ clock' = clock
          /\ Silent /\ roster \in RosterRecord /\ list \in ListRecord
          /\ list' = [members |-> IF state = "ok" THEN members ELSE list.members,
                      state |-> state, stamp |-> list.stamp + 1]
      BY <2>4 DEF EditList, AccessInv, AccessTypes
    <3>2. /\ list.stamp \in Nat /\ list.members \in SUBSET AccessPlayers
          /\ roster.stamp \in Int /\ roster.checked \in Int /\ roster.members \subseteq AccessPlayers
      BY <3>1 DEF ListRecord, RosterRecord
    <3>3. list' \in ListRecord /\ list'.stamp = list.stamp + 1
      BY <3>1, <3>2 DEF ListRecord
    <3>4. \A p \in AccessPlayers : entitled[p] <= entitled'[p] /\ entitled[p] \in Nat /\ entitled'[p] \in Nat
      <4>1. clock' \in Nat /\ clock <= clock'
        BY <3>1 DEF AccessInv, AccessTypes
      <4> QED
        BY <2>4, <4>1, EntitledGrows
    <3>5. RosterFresh'
      <4>1. clock' \in Nat /\ clock <= clock' /\ FileStatInterval \in Nat
        BY <3>1, AccessAssumption DEF AccessInv, AccessTypes
      <4>2. /\ seen'.asked = seen.asked /\ seen.asked \in Int
            /\ seen.bad \in Int /\ seen'.bad \in Int /\ seen.bad <= seen'.bad
        BY <2>4, <3>1, <4>1, SeenMoves
      <4> QED
        BY <3>1, <3>2, <3>3, <3>4, <4>1, <4>2 DEF AccessInv, RosterFresh
    <3> QED
      BY <2>4, <3>1, <3>3, <3>5, AccessOther, SilentHolds
  <2> QED
    BY <2>1, <2>2, <2>3, <2>4, RequestKeeps, FileLoadKeeps, EntryForKeeps, FetchKeeps, FillKeeps,
       AllowsKeeps, AccessTickKeeps DEF AccessNext, AccessStep
<1> QED
  BY <1>1, <1>2, PTL DEF AccessSpec

-----------------------------------------------------------------------------
(***************************************************************************)
(* Machines.  A check nothing overlapped is the only one there is, so the  *)
(* groups it found can only be those it has yet to move or its own; once   *)
(* it has saved its machine, that one is in its group, or was pruned.      *)
(***************************************************************************)
MachineOK(r) ==
  /\ r = [cluster |-> r.cluster, trusted |-> r.trusted]
  /\ r.cluster # None

CheckShape(k) ==
  /\ k = [pc |-> k.pc, subject |-> k.subject, report |-> k.report, shared |-> k.shared, found |-> k.found,
          merge |-> k.merge, machine |-> k.machine, cluster |-> k.cluster, alike |-> k.alike,
          alone |-> k.alone, erased |-> k.erased]
  /\ k.pc \in {"rows", "count", "move", "see", "verdict"}
  /\ k.pc \in {"move", "see", "verdict"} => k.cluster # None

(* What a check that nothing overlapped relies on.                         *)
AloneOK(k) ==
  /\ k.pc = "count" => \A m \in Known \cap DOMAIN k.found : machines[m].cluster = k.found[m]
  /\ k.pc = "count" => \A m \in DOMAIN k.found : k.found[m] # None
  /\ k.pc = "move" => \A m \in Known \cap k.alike : machines[m].cluster \in k.merge \cup {k.cluster}
  /\ k.pc = "see" => \A m \in Known \cap (k.alike \cup {k.machine}) : machines[m].cluster = k.cluster
  /\ k.pc = "verdict" /\ k.machine \in Known /\ ~k.erased =>
       machines[k.machine].cluster = k.cluster /\ <<k.machine, k.subject>> \in seenOn

CheckOK(c) ==
  checks[c] # NoCheck =>
    /\ CheckShape(checks[c])
    /\ checks[c].alone => AloneOK(checks[c]) /\ \A d \in Checks \ {c} : checks[d] = NoCheck

MachinesInv ==
  /\ lastMachine \in Nat
  /\ machines = [m \in Known |-> machines[m]] /\ \A m \in Known : MachineOK(machines[m])
  /\ checks = [c \in Checks |-> checks[c]] /\ \A c \in Checks : CheckOK(c)

(* A check is known by its pc.                                             *)
LEMMA IdleIsNoCheck == \A k : CheckShape(k) => k # NoCheck
BY DEF CheckShape, NoCheck

(* A step of one check leaves the others as they are; alone, it is enough  *)
(* that it keeps what it relies on itself.                                 *)
LEMMA OneCheckMoves ==
  ASSUME MachinesInv, NEW c \in Checks, checks[c] # NoCheck, NEW k, checks' = [checks EXCEPT ![c] = k],
         lastMachine' \in Nat,
         machines' = [m \in Known' |-> machines'[m]], \A m \in Known' : MachineOK(machines[m])',
         k = NoCheck \/ (CheckShape(k) /\ k.alone = checks[c].alone /\ (k.alone => AloneOK(k)'))
  PROVE  MachinesInv'
<1>1. checks' = [d \in Checks |-> checks'[d]] /\ checks'[c] = k /\ \A d \in Checks \ {c} : checks'[d] = checks[d]
  BY DEF MachinesInv
<1>2. CheckOK(c)'
  <2>1. CASE k = NoCheck
    BY <1>1, <2>1 DEF CheckOK
  <2>2. CASE CheckShape(k) /\ k.alone = checks[c].alone /\ (k.alone => AloneOK(k)')
    <3>1. CheckShape(checks[c])' /\ checks[c]' = k
      BY <1>1, <2>2 DEF CheckShape
    <3>2. ASSUME k.alone PROVE AloneOK(checks[c])' /\ \A d \in Checks \ {c} : checks'[d] = NoCheck
      <4>1. checks[c].alone /\ AloneOK(k)'
        BY <2>2, <3>2
      <4>2. \A d \in Checks \ {c} : checks[d] = NoCheck
        BY <4>1 DEF MachinesInv, CheckOK
      <4>3. AloneOK(checks[c])'
        BY <1>1, <4>1 DEF AloneOK
      <4> QED
        BY <1>1, <4>2, <4>3
    <3> QED
      BY <3>1, <3>2 DEF CheckOK
  <2> QED
    BY <2>1, <2>2
<1>3. ASSUME NEW d \in Checks \ {c} PROVE CheckOK(d)'
  <2>1. CASE checks[d] = NoCheck
    BY <1>1, <2>1 DEF CheckOK
  <2>2. CASE checks[d] # NoCheck
    <3>1. CheckShape(checks[d]) /\ ~checks[d].alone
      BY <2>2 DEF MachinesInv, CheckOK
    <3>2. checks'[d] = checks[d]
      BY <1>1
    <3> QED
      BY <3>1, <3>2 DEF CheckOK, CheckShape
  <2> QED
    BY <2>1, <2>2
<1> QED
  BY <1>1, <1>2, <1>3 DEF MachinesInv

(* The rows read with a report are those of the store, and no group is     *)
(* nameless.                                                               *)
LEMMA RowsAre ==
  ASSUME MachinesInv, NEW shared, NEW rows, rows = Rows(shared)
  PROVE  /\ \A m \in Known \cap DOMAIN rows : machines[m].cluster = rows[m]
         /\ \A m \in DOMAIN rows : rows[m] # None
<1>1. DOMAIN rows \subseteq Known /\ \A m \in DOMAIN rows : rows[m] = machines[m].cluster
  BY DEF Rows
<1>2. \A m \in Known : machines[m].cluster # None
  BY DEF MachinesInv, MachineOK
<1> QED
  BY <1>1, <1>2

(* A check begins; those it overlaps are no longer alone.                  *)
LEMMA CandidatesKeeps ==
  ASSUME MachinesInv, NEW c \in Checks, NEW subject, NEW report, Candidates(c, subject, report)
  PROVE  MachinesInv'
<1> PICK shared : shared = Shared(report)
  OBVIOUS
<1> PICK rows : rows = Rows(shared)
  OBVIOUS
<1> PICK k : k = [pc |-> IF sql THEN "rows" ELSE "count", subject |-> subject, report |-> report,
                  shared |-> shared, found |-> IF sql THEN <<>> ELSE rows,
                  merge |-> {}, machine |-> None, cluster |-> None, alike |-> {},
                  alone |-> \A e \in Checks : checks[e] = NoCheck, erased |-> FALSE]
  OBVIOUS
<1>1. /\ checks[c] = NoCheck /\ machines' = machines /\ seenOn' = seenOn /\ lastMachine' = lastMachine
      /\ checks' = [d \in Checks |-> IF d = c THEN k
            ELSE IF checks[d] = NoCheck THEN NoCheck ELSE [checks[d] EXCEPT !.alone = FALSE, !.alike = {}]]
  BY DEF Candidates
<1>3. /\ k.pc \in {"rows", "count"} /\ (k.pc = "count" => k.found = rows)
      /\ (k.alone => \A e \in Checks : checks[e] = NoCheck)
  OBVIOUS
<1>5. CheckShape(k)
  <2>1. k = [pc |-> k.pc, subject |-> k.subject, report |-> k.report, shared |-> k.shared, found |-> k.found,
             merge |-> k.merge, machine |-> k.machine, cluster |-> k.cluster, alike |-> k.alike,
             alone |-> k.alone, erased |-> k.erased]
    OBVIOUS
  <2> QED
    BY <2>1, <1>3 DEF CheckShape
<1>6. /\ k.pc = "count" => \A m \in Known \cap DOMAIN k.found : machines[m].cluster = k.found[m]
      /\ k.pc = "count" => \A m \in DOMAIN k.found : k.found[m] # None
  BY <1>3, RowsAre
<1>7. ASSUME NEW d \in Checks PROVE CheckOK(d)'
  <2>1. CASE d = c
    <3>1. checks'[d] = k
      BY <1>1, <2>1
    <3>2. CheckShape(checks[d])'
      BY <3>1, <1>5 DEF CheckShape
    <3>3. AloneOK(k)'
      BY <1>1, <1>3, <1>6 DEF AloneOK, Known
    <3>5. AloneOK(checks[d])'
      BY <3>1, <3>3 DEF AloneOK
    <3>4. checks'[d].alone => \A e \in Checks \ {d} : checks'[e] = NoCheck
      BY <1>1, <1>3, <2>1, <3>1
    <3> QED
      BY <3>2, <3>4, <3>5 DEF CheckOK
  <2>2. CASE d # c /\ checks[d] = NoCheck
    BY <1>1, <2>2 DEF CheckOK
  <2>3. CASE d # c /\ checks[d] # NoCheck
    <3> PICK j : j = checks[d]
      OBVIOUS
    <3>1. CheckShape(j)
      BY <2>3 DEF MachinesInv, CheckOK
    <3> PICK i : i = [j EXCEPT !.alone = FALSE, !.alike = {}]
      OBVIOUS
    <3>2. i = [pc |-> j.pc, subject |-> j.subject, report |-> j.report, shared |-> j.shared, found |-> j.found,
               merge |-> j.merge, machine |-> j.machine, cluster |-> j.cluster, alike |-> {},
               alone |-> FALSE, erased |-> j.erased]
      BY <3>1 DEF CheckShape
    <3>3. CheckShape(i) /\ ~i.alone
      BY <3>1, <3>2 DEF CheckShape
    <3>4. checks'[d] = i
      BY <1>1, <2>3
    <3> QED
      BY <3>3, <3>4 DEF CheckOK, CheckShape
  <2> QED
    BY <2>1, <2>2, <2>3
<1>8. checks' = [d \in Checks |-> checks'[d]]
  BY <1>1
<1>9. machines' = [m \in Known' |-> machines'[m]] /\ \A m \in Known' : MachineOK(machines[m])'
  BY <1>1 DEF MachinesInv, MachineOK, Known
<1>10. lastMachine' \in Nat
  BY <1>1 DEF MachinesInv
<1> QED
  BY <1>7, <1>8, <1>9, <1>10 DEF MachinesInv

(* The rows of the candidates are read.                                    *)
LEMMA CandidateRowsKeeps ==
  ASSUME MachinesInv, NEW c \in Checks, CandidateRows(c)
  PROVE  MachinesInv'
<1> PICK k : k = checks[c]
  OBVIOUS
<1> PICK rows : rows = Rows(k.shared)
  OBVIOUS
<1>1. /\ k.pc = "rows" /\ lastMachine' = lastMachine /\ machines' = machines /\ seenOn' = seenOn
      /\ checks' = [checks EXCEPT ![c].pc = "count", ![c].found = rows]
  BY DEF CandidateRows
<1>2. CheckShape(k) /\ k # NoCheck
  BY <1>1 DEF MachinesInv, CheckOK, NoCheck
<1> PICK j : j = [k EXCEPT !.pc = "count", !.found = rows]
  OBVIOUS
<1>3. j = [pc |-> "count", subject |-> k.subject, report |-> k.report, shared |-> k.shared, found |-> rows,
           merge |-> k.merge, machine |-> k.machine, cluster |-> k.cluster, alike |-> k.alike,
           alone |-> k.alone, erased |-> k.erased]
  BY <1>2 DEF CheckShape
<1>4. CheckShape(j) /\ j.pc = "count" /\ j.found = rows /\ j.alone = k.alone
  BY <1>2, <1>3 DEF CheckShape
<1>5. checks' = [checks EXCEPT ![c] = j]
  BY <1>1 DEF MachinesInv
<1>6. machines' = [m \in Known' |-> machines'[m]] /\ \A m \in Known' : MachineOK(machines[m])'
  BY <1>1 DEF MachinesInv, MachineOK, Known
<1>7. AloneOK(j)'
  <2>1. /\ \A m \in Known \cap DOMAIN rows : machines[m].cluster = rows[m]
        /\ \A m \in DOMAIN rows : rows[m] # None
    BY RowsAre
  <2> QED
    BY <1>1, <1>4, <2>1 DEF AloneOK, Known
<1>8. checks[c] # NoCheck /\ CheckShape(j) /\ j.alone = checks[c].alone /\ (j.alone => AloneOK(j)')
  BY <1>2, <1>4, <1>7
<1>9. lastMachine' \in Nat
  BY <1>1 DEF MachinesInv
<1> QED
  BY <1>5, <1>6, <1>8, <1>9, OneCheckMoves

(* What the report resembles is in its group or in one that is to be moved *)
(* there.                                                                  *)
LEMMA CheckResolveKeeps ==
  ASSUME MachinesInv, NEW c \in Checks, CheckResolve(c)
  PROVE  MachinesInv'
<1> DEFINE kk == checks[c]
          pp == [m \in DOMAIN kk.found |-> score(kk.shared[m])]
          found0 == IF Alike(pp) = {} THEN {Resolution}
                    ELSE {Resolve(best, kk.found, pp, kk.shared) : best \in Best(pp)}
          moved(f) == [pc |-> "move", subject |-> kk.subject, report |-> kk.report,
                       shared |-> <<>>, found |-> <<>>, merge |-> f.merge,
                       machine |-> IF f.machine = None THEN lastMachine + 1 ELSE f.machine,
                       cluster |-> IF f.cluster = None THEN lastMachine + 1 ELSE f.cluster,
                       alike |-> IF kk.alone THEN Alike(pp) ELSE {}, alone |-> kk.alone, erased |-> FALSE]
<1>0. \E f \in found0 : /\ IF f.machine = None THEN lastMachine < MaxMachines /\ lastMachine' = lastMachine + 1
                            ELSE UNCHANGED lastMachine
                       /\ checks' = [checks EXCEPT ![c] = moved(f)]
  BY Zenon DEF CheckResolve
<1>a. PICK found \in found0 : /\ (lastMachine' = lastMachine + 1 \/ lastMachine' = lastMachine)
                             /\ checks' = [checks EXCEPT ![c] = moved(found)]
  BY <1>0, Zenon
<1> PICK k : k = kk
  OBVIOUS
<1> PICK points : points = pp
  OBVIOUS
<1> PICK alike : alike = Alike(points)
  OBVIOUS
<1>1. /\ found \in IF alike = {} THEN {Resolution}
                   ELSE {Resolve(best, k.found, points, k.shared) : best \in Best(points)}
      /\ (lastMachine' = lastMachine + 1 \/ lastMachine' = lastMachine)
      /\ checks' = [checks EXCEPT ![c] =
                  [pc |-> "move", subject |-> k.subject, report |-> k.report,
                   shared |-> <<>>, found |-> <<>>, merge |-> found.merge,
                   machine |-> IF found.machine = None THEN lastMachine + 1 ELSE found.machine,
                   cluster |-> IF found.cluster = None THEN lastMachine + 1 ELSE found.cluster,
                   alike |-> IF k.alone THEN alike ELSE {}, alone |-> k.alone, erased |-> FALSE]]
  BY <1>a, Zenon
<1>2. k.pc = "count" /\ machines' = machines /\ seenOn' = seenOn /\ k # NoCheck
  BY DEF CheckResolve, NoCheck
<1>3. CheckShape(k) /\ (k.alone => AloneOK(k))
  BY <1>2 DEF MachinesInv, CheckOK
<1> PICK j : j = [pc |-> "move", subject |-> k.subject, report |-> k.report,
                  shared |-> <<>>, found |-> <<>>, merge |-> found.merge,
                  machine |-> IF found.machine = None THEN lastMachine + 1 ELSE found.machine,
                  cluster |-> IF found.cluster = None THEN lastMachine + 1 ELSE found.cluster,
                  alike |-> IF k.alone THEN alike ELSE {}, alone |-> k.alone, erased |-> FALSE]
  OBVIOUS
<1>4. /\ j.pc = "move" /\ j.merge = found.merge /\ j.alone = k.alone /\ (k.alone => j.alike = alike)
      /\ j.cluster = (IF found.cluster = None THEN lastMachine + 1 ELSE found.cluster)
  OBVIOUS
<1>5. j.cluster # None /\ lastMachine' \in Nat
  BY <1>1, <1>4 DEF MachinesInv, None
<1>6. CheckShape(j)
  <2>1. j = [pc |-> j.pc, subject |-> j.subject, report |-> j.report, shared |-> j.shared, found |-> j.found,
             merge |-> j.merge, machine |-> j.machine, cluster |-> j.cluster, alike |-> j.alike,
             alone |-> j.alone, erased |-> j.erased]
    OBVIOUS
  <2> QED
    BY <2>1, <1>4, <1>5 DEF CheckShape
<1>7. checks' = [checks EXCEPT ![c] = j]
  BY <1>1
<1>8. machines' = [m \in Known' |-> machines'[m]] /\ \A m \in Known' : MachineOK(machines[m])'
  BY <1>2 DEF MachinesInv, MachineOK, Known
<1>9. alike \subseteq DOMAIN k.found
  BY DEF Alike
<1>10. ASSUME k.alone PROVE \A m \in Known \cap alike : machines[m].cluster \in j.merge \cup {j.cluster}
  <2> SUFFICES ASSUME NEW m \in Known, m \in alike PROVE machines[m].cluster \in j.merge \cup {j.cluster}
    OBVIOUS
  <2>1. machines[m].cluster = k.found[m] /\ k.found[m] # None
    BY <1>2, <1>3, <1>9, <1>10 DEF AloneOK
  <2>3. alike # {}
    OBVIOUS
  <2> QED
    <3>1. PICK best \in Best(points) : found = Resolve(best, k.found, points, k.shared)
      BY <1>1, <2>3
    <3> PICK group : group = k.found[best]
      OBVIOUS
    <3>2. found.cluster = group /\ found.merge = {k.found[n] : n \in alike} \ {group}
      BY <3>1 DEF Resolve
    <3>3. group # None
      <4>1. best \in DOMAIN k.found
        BY <1>9 DEF Best
      <4> QED
        BY <1>2, <1>3, <1>10, <4>1 DEF AloneOK
    <3>4. j.cluster = group
      BY <1>4, <3>2, <3>3
    <3> QED
      BY <1>4, <2>1, <3>2, <3>4
<1>11. k.alone => AloneOK(j)'
  BY <1>2, <1>4, <1>10 DEF AloneOK, Known
<1>12. checks[c] # NoCheck /\ CheckShape(j) /\ j.alone = checks[c].alone /\ (j.alone => AloneOK(j)')
  BY <1>2, <1>4, <1>6, <1>11
<1> QED
  BY <1>5, <1>7, <1>8, <1>12, OneCheckMoves

(* One group is moved.                                                     *)
LEMMA CheckMoveKeeps ==
  ASSUME MachinesInv, NEW c \in Checks, CheckMove(c)
  PROVE  MachinesInv'
<1> PICK k : k = checks[c]
  OBVIOUS
<1>1. PICK g \in k.merge :
         /\ machines' = [m \in Known |-> IF machines[m].cluster = g
                                         THEN [machines[m] EXCEPT !.cluster = k.cluster] ELSE machines[m]]
         /\ checks' = [checks EXCEPT ![c].merge = k.merge \ {g}]
  BY DEF CheckMove
<1>2. k.pc = "move" /\ k # NoCheck /\ lastMachine' = lastMachine
  BY DEF CheckMove, NoCheck
<1>3. CheckShape(k) /\ (k.alone => AloneOK(k))
  BY <1>2 DEF MachinesInv, CheckOK
<1> PICK j : j = [k EXCEPT !.merge = k.merge \ {g}]
  OBVIOUS
<1>4. j = [pc |-> "move", subject |-> k.subject, report |-> k.report, shared |-> k.shared, found |-> k.found,
           merge |-> k.merge \ {g}, machine |-> k.machine, cluster |-> k.cluster, alike |-> k.alike,
           alone |-> k.alone, erased |-> k.erased]
  BY <1>2, <1>3 DEF CheckShape
<1>5. CheckShape(j) /\ j.pc = "move" /\ j.merge = k.merge \ {g} /\ j.cluster = k.cluster
      /\ j.alike = k.alike /\ j.alone = k.alone
  BY <1>3, <1>4 DEF CheckShape
<1>6. checks' = [checks EXCEPT ![c] = j]
  BY <1>1 DEF MachinesInv
<1>7. Known' = Known /\ machines' = [m \in Known' |-> machines'[m]]
  BY <1>1 DEF Known
<1>8. ASSUME NEW m \in Known
      PROVE  MachineOK(machines'[m]) /\ machines'[m].cluster = IF machines[m].cluster = g THEN k.cluster
                                                                                        ELSE machines[m].cluster
  <2>1. MachineOK(machines[m])
    BY DEF MachinesInv
  <2>2. CASE machines[m].cluster = g
    <3>1. machines'[m] = [cluster |-> k.cluster, trusted |-> machines[m].trusted]
      BY <1>1, <2>1, <2>2 DEF MachineOK
    <3>2. k.cluster # None
      BY <1>2, <1>3 DEF CheckShape
    <3> QED
      BY <2>2, <3>1, <3>2 DEF MachineOK
  <2>3. CASE machines[m].cluster # g
    BY <1>1, <2>1, <2>3
  <2> QED
    BY <2>2, <2>3
<1>9. \A m \in Known' : MachineOK(machines[m])'
  BY <1>7, <1>8 DEF MachineOK
<1>10. ASSUME k.alone PROVE AloneOK(j)'
  <2>1. \A m \in Known \cap k.alike : machines[m].cluster \in k.merge \cup {k.cluster}
    BY <1>2, <1>3, <1>10 DEF AloneOK
  <2>2. \A m \in Known' \cap j.alike : machines'[m].cluster \in j.merge \cup {j.cluster}
    BY <2>1, <1>5, <1>7, <1>8
  <2> QED
    BY <2>2, <1>5 DEF AloneOK
<1>11. checks[c] # NoCheck /\ CheckShape(j) /\ j.alone = checks[c].alone /\ (j.alone => AloneOK(j)')
  BY <1>2, <1>5, <1>10
<1>12. lastMachine' \in Nat
  BY <1>2 DEF MachinesInv
<1> QED
  BY <1>6, <1>7, <1>9, <1>11, <1>12, OneCheckMoves

(* The machine is saved, once no group is left to move.                    *)
LEMMA SaveMachineKeeps ==
  ASSUME MachinesInv, NEW c \in Checks, SaveMachine(c)
  PROVE  MachinesInv'
<1> PICK k : k = checks[c]
  OBVIOUS
<1> PICK new : new = [cluster |-> k.cluster, trusted |-> k.machine \in Known /\ machines[k.machine].trusted]
  OBVIOUS
<1>1. /\ k.pc = "move" /\ k.merge = {} /\ lastMachine' = lastMachine
      /\ machines' = [m \in Known \cup {k.machine} |-> IF m = k.machine THEN new ELSE machines[m]]
      /\ checks' = [checks EXCEPT ![c].pc = "see", ![c].report = {}]
  BY DEF SaveMachine
<1>2. CheckShape(k) /\ (k.alone => AloneOK(k)) /\ k # NoCheck
  BY <1>1 DEF MachinesInv, CheckOK, NoCheck
<1> PICK j : j = [k EXCEPT !.pc = "see", !.report = {}]
  OBVIOUS
<1>3. j = [pc |-> "see", subject |-> k.subject, report |-> {}, shared |-> k.shared, found |-> k.found,
           merge |-> k.merge, machine |-> k.machine, cluster |-> k.cluster, alike |-> k.alike,
           alone |-> k.alone, erased |-> k.erased]
  BY <1>2 DEF CheckShape
<1>13. k.cluster # None
  BY <1>1, <1>2 DEF CheckShape
<1>4. CheckShape(j) /\ j.pc = "see" /\ j.machine = k.machine /\ j.cluster = k.cluster
      /\ j.alike = k.alike /\ j.alone = k.alone
  BY <1>3, <1>13 DEF CheckShape
<1>5. checks' = [checks EXCEPT ![c] = j]
  BY <1>1 DEF MachinesInv
<1>6. Known' = Known \cup {k.machine} /\ machines' = [m \in Known' |-> machines'[m]]
  BY <1>1 DEF Known
<1>7. MachineOK(new) /\ new.cluster = k.cluster
  BY <1>13 DEF MachineOK
<1>8. \A m \in Known' : MachineOK(machines[m])'
  BY <1>1, <1>6, <1>7 DEF MachinesInv, MachineOK
<1>9. ASSUME k.alone PROVE AloneOK(j)'
  <2>1. \A m \in Known \cap k.alike : machines[m].cluster = k.cluster
    BY <1>1, <1>2, <1>9 DEF AloneOK
  <2>2. \A m \in Known' \cap (j.alike \cup {j.machine}) : machines'[m].cluster = j.cluster
    BY <2>1, <1>1, <1>4, <1>6, <1>7
  <2> QED
    BY <2>2, <1>4 DEF AloneOK
<1>10. checks[c] # NoCheck /\ CheckShape(j) /\ j.alone = checks[c].alone /\ (j.alone => AloneOK(j)')
  BY <1>2, <1>4, <1>9
<1>11. lastMachine' \in Nat /\ machines' = [m \in Known' |-> machines'[m]]
  BY <1>1, <1>6 DEF MachinesInv
<1> QED
  BY <1>5, <1>8, <1>10, <1>11, OneCheckMoves

(* The account is recorded on the machine.                                 *)
LEMMA SeeAccountKeeps ==
  ASSUME MachinesInv, NEW c \in Checks, SeeAccount(c)
  PROVE  MachinesInv'
<1> PICK k : k = checks[c]
  OBVIOUS
<1>1. /\ k.pc = "see" /\ lastMachine' = lastMachine /\ machines' = machines
      /\ seenOn' = seenOn \cup {<<k.machine, k.subject>>}
      /\ checks' = [checks EXCEPT ![c].pc = "verdict", ![c].alike = {}]
  BY DEF SeeAccount, Recorded
<1>2. CheckShape(k) /\ (k.alone => AloneOK(k)) /\ k # NoCheck
  BY <1>1 DEF MachinesInv, CheckOK, NoCheck
<1> PICK j : j = [k EXCEPT !.pc = "verdict", !.alike = {}]
  OBVIOUS
<1>3. j = [pc |-> "verdict", subject |-> k.subject, report |-> k.report, shared |-> k.shared, found |-> k.found,
           merge |-> k.merge, machine |-> k.machine, cluster |-> k.cluster, alike |-> {},
           alone |-> k.alone, erased |-> k.erased]
  BY <1>2 DEF CheckShape
<1>10. k.cluster # None
  BY <1>1, <1>2 DEF CheckShape
<1>4. CheckShape(j) /\ j.pc = "verdict" /\ j.machine = k.machine /\ j.subject = k.subject
      /\ j.cluster = k.cluster /\ j.alone = k.alone
  BY <1>3, <1>10 DEF CheckShape
<1>5. checks' = [checks EXCEPT ![c] = j]
  BY <1>1 DEF MachinesInv
<1>6. Known' = Known /\ machines' = [m \in Known' |-> machines'[m]] /\ \A m \in Known' : MachineOK(machines[m])'
  BY <1>1 DEF MachinesInv, MachineOK, Known
<1>7. ASSUME k.alone PROVE AloneOK(j)'
  <2>1. k.machine \in Known => machines[k.machine].cluster = k.cluster
    BY <1>1, <1>2, <1>7 DEF AloneOK
  <2>2. j.machine \in Known' => machines'[j.machine].cluster = j.cluster /\ <<j.machine, j.subject>> \in seenOn'
    BY <2>1, <1>1, <1>4, <1>6
  <2> QED
    BY <2>2, <1>4 DEF AloneOK
<1>8. checks[c] # NoCheck /\ CheckShape(j) /\ j.alone = checks[c].alone /\ (j.alone => AloneOK(j)')
  BY <1>2, <1>4, <1>7
<1>9. lastMachine' \in Nat
  BY <1>1 DEF MachinesInv
<1> QED
  BY <1>5, <1>6, <1>8, <1>9, OneCheckMoves

(* A check ends, with a verdict or without.                                *)
LEMMA CheckEndKeeps ==
  ASSUME MachinesInv, NEW c \in Checks, CheckVerdict(c) \/ CheckError(c)
  PROVE  MachinesInv'
<1>1. /\ checks[c] # NoCheck /\ checks' = [checks EXCEPT ![c] = NoCheck]
      /\ machines' = machines /\ lastMachine' = lastMachine
  BY DEF CheckVerdict, CheckError, NoCheck
<1>2. machines' = [m \in Known' |-> machines'[m]] /\ \A m \in Known' : MachineOK(machines[m])'
  BY <1>1 DEF MachinesInv, MachineOK, Known
<1>3. lastMachine' \in Nat
  BY <1>1 DEF MachinesInv
<1> QED
  BY <1>1, <1>2, <1>3, OneCheckMoves

(* The operator's commands move no machine to another group; a machine     *)
(* that is pruned is gone for good.                                        *)
LEMMA OperatorKeeps ==
  ASSUME MachinesInv, checks' = checks, lastMachine' = lastMachine, Known' \subseteq Known,
         machines' = [m \in Known' |-> machines'[m]], \A m \in Known' : MachineOK(machines[m])',
         \A m \in Known' : machines'[m].cluster = machines[m].cluster,
         \A m \in Known' : \A subject : <<m, subject>> \in seenOn => <<m, subject>> \in seenOn'
  PROVE  MachinesInv'
<1>1. ASSUME NEW k, AloneOK(k) PROVE AloneOK(k)'
  BY <1>1 DEF AloneOK
<1>2. ASSUME NEW c \in Checks PROVE CheckOK(c)'
  <2>1. CASE checks[c] = NoCheck
    BY <2>1 DEF CheckOK
  <2>2. CASE checks[c] # NoCheck
    <3>1. CheckShape(checks[c]) /\ (checks[c].alone => AloneOK(checks[c]) /\ \A d \in Checks \ {c} : checks[d] = NoCheck)
      BY <2>2 DEF MachinesInv, CheckOK
    <3>2. checks[c].alone => AloneOK(checks[c])'
      BY <3>1, <1>1 DEF AloneOK
    <3>3. CheckShape(checks[c])'
      BY <3>1 DEF CheckShape
    <3> QED
      BY <3>1, <3>2, <3>3 DEF CheckOK
  <2> QED
    BY <2>1, <2>2
<1> QED
  BY <1>2 DEF MachinesInv

(* Trusting a machine leaves it in its group.                              *)
LEMMA TrustKeeps ==
  ASSUME MachinesInv, NEW o, NEW x \in Known, SetTrusted(o, x)
  PROVE  MachinesInv'
<1>1. machines' = [machines EXCEPT ![x].trusted = ~@] /\ checks' = checks /\ lastMachine' = lastMachine /\ seenOn' = seenOn
  BY DEF SetTrusted
<1> PICK r : r = machines[x]
  OBVIOUS
<1>2. MachineOK(r)
  BY DEF MachinesInv
<1> PICK t : t = [r EXCEPT !.trusted = ~@]
  OBVIOUS
<1>3. t = [cluster |-> r.cluster, trusted |-> ~r.trusted]
  BY <1>2 DEF MachineOK
<1>4. MachineOK(t) /\ t.cluster = r.cluster
  BY <1>2, <1>3 DEF MachineOK
<1>5. Known' = Known /\ \A m \in Known : machines'[m] = IF m = x THEN t ELSE machines[m]
  BY <1>1 DEF MachinesInv, Known
<1>6. machines' = [m \in Known' |-> machines'[m]]
  BY <1>1, <1>5 DEF MachinesInv, Known
<1>7. \A m \in Known' : MachineOK(machines[m])'
  BY <1>4, <1>5 DEF MachinesInv, MachineOK
<1> QED
  BY <1>1, <1>4, <1>5, <1>6, <1>7, OperatorKeeps

(* A machine that is pruned, in memory with its accounts or over SQL at    *)
(* last, leaves the others as they are.                                    *)
LEMMA PruneKeeps ==
  ASSUME MachinesInv, NEW gone, checks' = checks, lastMachine' = lastMachine,
         machines' = [m \in Known \ gone |-> machines[m]],
         seenOn' = seenOn \/ seenOn' = {p \in seenOn : p[1] \notin gone}
  PROVE  MachinesInv'
<1>3. Known' = Known \ gone /\ \A m \in Known' : machines'[m] = machines[m]
  BY DEF Known
<1>4. machines' = [m \in Known' |-> machines'[m]] /\ \A m \in Known' : MachineOK(machines[m])'
  BY <1>3 DEF MachinesInv, MachineOK
<1>5. \A m \in Known' : \A subject : <<m, subject>> \in seenOn => <<m, subject>> \in seenOn'
  BY <1>3
<1> QED
  BY <1>3, <1>4, <1>5, OperatorKeeps

(* A check whose account is deleted over SQL after it recorded it is       *)
(* marked; every other keeps what it relies on.                            *)
LEMMA PruneAccountsKeeps ==
  ASSUME MachinesInv, NEW o, PruneAccounts(o)
  PROVE  MachinesInv'
<1> PICK stale : stale = orders[o].stale
  OBVIOUS
<1>1. /\ machines' = machines /\ lastMachine' = lastMachine /\ Known' = Known
      /\ seenOn' = {p \in seenOn : p[1] \notin stale}
      /\ checks' = [c \in Checks |-> IF checks[c].pc = "verdict" /\ checks[c].alone /\ checks[c].machine \in stale
                                     THEN [checks[c] EXCEPT !.erased = TRUE] ELSE checks[c]]
  BY DEF PruneAccounts, Known
<1>2. ASSUME NEW c \in Checks
      PROVE  /\ checks[c] = NoCheck => checks'[c] = NoCheck
             /\ CheckOK(c)'
  <2> PICK k : k = checks[c]
    OBVIOUS
  <2>1. CASE k = NoCheck
    <3>1. checks'[c] = NoCheck
      BY <1>1, <2>1 DEF NoCheck
    <3> QED
      BY <2>1, <3>1 DEF CheckOK
  <2>2. CASE k # NoCheck
    <3>1. CheckShape(k) /\ (k.alone => AloneOK(k) /\ \A d \in Checks \ {c} : checks[d] = NoCheck)
      BY <2>2 DEF MachinesInv, CheckOK
    <3>2. k.alone => \A d \in Checks \ {c} : checks'[d] = NoCheck
      BY <1>1, <3>1 DEF NoCheck
    <3>3. CASE k.pc = "verdict" /\ k.alone /\ k.machine \in stale
      <4> PICK j : j = [k EXCEPT !.erased = TRUE]
        OBVIOUS
      <4>1. j = [pc |-> k.pc, subject |-> k.subject, report |-> k.report, shared |-> k.shared, found |-> k.found,
                 merge |-> k.merge, machine |-> k.machine, cluster |-> k.cluster, alike |-> k.alike,
                 alone |-> k.alone, erased |-> TRUE]
        BY <3>1 DEF CheckShape
      <4>2. CheckShape(j) /\ j.pc = "verdict" /\ j.alone /\ j.erased
        BY <3>1, <3>3, <4>1 DEF CheckShape
      <4>3. checks'[c] = j
        BY <1>1, <3>3
      <4>4. CheckShape(checks[c])' /\ AloneOK(checks[c])'
        BY <4>2, <4>3 DEF CheckShape, AloneOK
      <4> QED
        BY <2>2, <3>2, <3>3, <4>4 DEF CheckOK
    <3>4. CASE ~(k.pc = "verdict" /\ k.alone /\ k.machine \in stale)
      <4>1. checks'[c] = k
        BY <1>1, <3>4
      <4>2. CheckShape(checks[c])'
        BY <3>1, <4>1 DEF CheckShape
      <4>3. k.alone => AloneOK(k)'
        BY <1>1, <3>1, <3>4 DEF AloneOK
      <4>4. k.alone => AloneOK(checks[c])'
        BY <4>1, <4>3 DEF AloneOK
      <4> QED
        BY <2>2, <3>2, <4>1, <4>2, <4>4 DEF CheckOK
    <3> QED
      BY <3>3, <3>4
  <2> QED
    BY <2>1, <2>2
<1>3. checks' = [c \in Checks |-> checks'[c]]
  BY <1>1
<1>4. machines' = [m \in Known' |-> machines'[m]] /\ \A m \in Known' : MachineOK(machines[m])'
  BY <1>1 DEF MachinesInv, MachineOK
<1> QED
  BY <1>1, <1>2, <1>3, <1>4 DEF MachinesInv

(* More targets meet more bans.                                            *)
LEMMA MoreTargetsMoreBans == \A S, T : S \subseteq T => BansOn(S) \subseteq BansOn(T)
BY DEF BansOn

(* The invariant implies what the runs check.                              *)
LEMMA MachinesInvHolds == MachinesInv => MachinesHold
<1> SUFFICES ASSUME MachinesInv PROVE MachinesHold
  OBVIOUS
<1>1. GroupsConverge
  <2> SUFFICES ASSUME NEW c \in Checks, checks[c].pc = "see", checks[c].alone
               PROVE  \A m \in Known \cap (checks[c].alike \cup {checks[c].machine}) : machines[m].cluster = checks[c].cluster
    BY DEF GroupsConverge
  <2> QED
    <3> PICK k : k = checks[c]
      OBVIOUS
    <3>1. k # NoCheck /\ k.pc = "see" /\ k.alone
      BY DEF NoCheck
    <3>2. AloneOK(k)
      BY <3>1 DEF MachinesInv, CheckOK
    <3> QED
      BY <3>1, <3>2 DEF AloneOK
<1>2. ASSUME NEW c \in Checks, checks[c].pc = "verdict", checks[c].alone, ~checks[c].erased,
             checks[c].machine \in Known
      PROVE  findBan(checks[c].subject, checks[c].machine, checks[c].cluster) \subseteq CheckSubject(checks[c].subject)
  <2> PICK k : k = checks[c]
    OBVIOUS
  <2>1. machines[k.machine].cluster = k.cluster /\ <<k.machine, k.subject>> \in seenOn
    BY <1>2 DEF MachinesInv, CheckOK, AloneOK, NoCheck
  <2>2. k.machine \in MachinesOfSubject(k.subject)
    BY <1>2, <2>1 DEF MachinesOfSubject
  <2> QED
    BY <2>1, <2>2, MoreTargetsMoreBans DEF findBan, CheckSubject
<1> QED
  BY <1>1, <1>2 DEF MachinesHold, BansFollow

(***************************************************************************)
(* For any reports, weights, limits and any number of checks at the same   *)
(* time: a check that nothing overlaps brings the machines its report      *)
(* resembles into one group, and a ban it finds holds for a login without  *)
(* a report too (hwid/gate.go, Check and CheckSubject), although bans and  *)
(* prunes come between its calls of the store.  A prune over SQL that      *)
(* deletes the account it has just recorded is the exception the property  *)
(* names.                                                                  *)
(***************************************************************************)
THEOREM MachinesAlwaysHold == MachinesSpec => []MachinesHold
<1>1. MachinesInit => MachinesInv
  <2> SUFFICES ASSUME MachinesInit PROVE MachinesInv
    OBVIOUS
  <2>1. DOMAIN machines = {}
    BY DEF MachinesInit
  <2>2. machines = [m \in Known |-> machines[m]]
    BY DEF MachinesInit, Known
  <2> QED
    BY <2>1, <2>2 DEF MachinesInit, MachinesInv, CheckOK, Known
<1>2. MachinesInv /\ [MachinesNext]_machinesVars => MachinesInv'
  <2> SUFFICES ASSUME MachinesInv, [MachinesNext]_machinesVars PROVE MachinesInv'
    OBVIOUS
  <2>1. CASE UNCHANGED machinesVars
    BY <2>1, OperatorKeeps DEF machinesVars, MachinesInv, MachineOK, Known
  <2>2. ASSUME NEW c \in Checks, NEW subject \in Subjects, NEW report \in Reports, Candidates(c, subject, report)
        PROVE  MachinesInv'
    BY <2>2, CandidatesKeeps
  <2>3. ASSUME NEW o \in Commands, banCommand(o) \/ OrderFails(o)
                                    \/ (\E m \in Known : PruneSelect(o, {m})) \/ PruneSignals(o)
        PROVE  MachinesInv'
    <3>1. /\ machines' = machines /\ lastMachine' = lastMachine /\ seenOn' = seenOn /\ checks' = checks
      BY <2>3 DEF banCommand, BanBegin, BanMembers, SaveBan, OrderFails, PruneSelect, PruneSignals
    <3> QED
      BY <3>1, OperatorKeeps DEF MachinesInv, MachineOK, Known
  <2>4. ASSUME bansCommand PROVE MachinesInv'
    <3>1. /\ machines' = machines /\ lastMachine' = lastMachine /\ seenOn' = seenOn /\ checks' = checks
      BY <2>4 DEF bansCommand, Unban
    <3> QED
      BY <3>1, OperatorKeeps DEF MachinesInv, MachineOK, Known
  <2>5. ASSUME NEW o \in Commands, NEW m \in Known, Prune(o, {m}) PROVE MachinesInv'
    BY <2>5, PruneKeeps DEF Prune
  <2>6. ASSUME NEW o \in Commands, PruneMachines(o) PROVE MachinesInv'
    BY <2>6, PruneKeeps DEF PruneMachines
  <2>7. ASSUME NEW o \in Commands, machinesCommand(o) PROVE MachinesInv'
    BY <2>7, <2>3, <2>5, <2>6, TrustKeeps, PruneAccountsKeeps DEF machinesCommand
  <2> QED
    BY <2>1, <2>2, <2>3, <2>4, <2>7, CandidateRowsKeeps, CheckResolveKeeps, CheckMoveKeeps, SaveMachineKeeps,
       SeeAccountKeeps, CheckEndKeeps DEF MachinesNext
<1> QED
  BY <1>1, <1>2, MachinesInvHolds, PTL DEF MachinesSpec

=============================================================================
