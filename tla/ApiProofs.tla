------------------------------ MODULE ApiProofs ------------------------------
(***************************************************************************)
(* Proofs about modules OAuth and Api: for any clients, handlers, codes,   *)
(* cameras and lifetimes.                                                  *)
(***************************************************************************)
EXTENDS Api, FiniteSetTheorems, SequenceTheorems, TLAPS

-----------------------------------------------------------------------------
(* One-time codes.                                                         *)

(* A token request that has taken the entry of its code, and has not been  *)
(* refused.                                                                *)
Holds(x) == exchange[x].at \in {"taken", "granted"} /\ exchange[x].found

CodesInv ==
  /\ \A x \in Exchanges : exchange[x].at = "taken" =>
       exchange[x] \in [at : {"taken"}, code : Codes, redirect : Redirects,
                       found : BOOLEAN]
  /\ codes \subseteq DOMAIN consent
  /\ \A x \in Exchanges : exchange[x].at = "granted" => exchange[x].found
  /\ \A x \in Exchanges : Holds(x) => exchange[x].code \in DOMAIN consent \ codes
  /\ \A x, y \in Exchanges :
       Holds(x) /\ Holds(y) /\ exchange[x].code = exchange[y].code => x = y
  /\ exchange = [x \in Exchanges |-> exchange[x]]

(* At the start there is no code and no request.                           *)
LEMMA InitCodes == Init => CodesInv
BY DEF Init, CodesInv, Holds

(* A restart forgets codes and the requests that hold one.                 *)
LEMMA RestartCodes == CodesInv /\ Restart => CodesInv'
<1> SUFFICES ASSUME CodesInv, Restart PROVE CodesInv'
  OBVIOUS
<1>1. \A x \in Exchanges : Holds(x)' => Holds(x) /\ exchange'[x] = exchange[x]
  BY DEF Restart, Holds
<1>2. \A x \in Exchanges : exchange'[x].at = "granted" => exchange'[x] = exchange[x]
  BY DEF Restart
<1> QED
  BY <1>1, <1>2 DEF Restart, CodesInv

(* A code is new when it is minted, so no request holds it.                *)
LEMMA MintCodes ==
  ASSUME CodesInv, NEW w \in Workers, NEW k \in Codes, NEW uri \in Redirects,
         RightPassword(w, k, uri)
  PROVE  CodesInv'
<1>1. DOMAIN consent' = DOMAIN consent \cup {k} /\ k \notin DOMAIN consent
  BY DEF RightPassword
<1>2. codes' = codes \cup {k} /\ exchange' = exchange
  BY DEF RightPassword
<1> QED
  BY <1>1, <1>2 DEF CodesInv, Holds

(* Taking an entry leaves none for the others.                             *)
LEMMA TakeCodes ==
  ASSUME CodesInv, NEW x \in Exchanges, NEW k \in Codes, NEW uri \in Redirects,
         TakeCode(x, k, uri)
  PROVE  CodesInv'
<1>1. /\ codes' = codes \ {k} /\ consent' = consent
      /\ exchange' = [exchange EXCEPT ![x] =
           [at |-> "taken", code |-> k, redirect |-> uri, found |-> k \in codes]]
  BY DEF TakeCode
<1>2. /\ exchange'[x].at = "taken" /\ exchange'[x].code = k
      /\ exchange'[x].found <=> k \in codes
  BY <1>1 DEF CodesInv
<1>3. \A y \in Exchanges \ {x} : exchange'[y] = exchange[y]
  BY <1>1 DEF CodesInv
<1>4. Holds(x)' => k \in codes
  BY <1>2 DEF Holds
<1>5. \A y \in Exchanges \ {x} : Holds(y)' => Holds(y)
  BY <1>3 DEF Holds
<1>6. \A y \in Exchanges : exchange'[y].at = "granted" => exchange'[y].found
  BY <1>2, <1>3 DEF CodesInv
<1>7. \A y \in Exchanges : Holds(y)' => exchange'[y].code \in DOMAIN consent \ codes'
  <2> SUFFICES ASSUME NEW y \in Exchanges, Holds(y)'
               PROVE  exchange'[y].code \in DOMAIN consent \ codes'
    OBVIOUS
  <2>1. CASE y = x
    BY <1>1, <1>2, <1>4, <2>1 DEF CodesInv
  <2>2. CASE y # x
    BY <1>1, <1>3, <1>5, <2>2 DEF CodesInv
  <2> QED
    BY <2>1, <2>2
<1>8. \A y, z \in Exchanges :
        Holds(y)' /\ Holds(z)' /\ exchange'[y].code = exchange'[z].code => y = z
  <2> SUFFICES ASSUME NEW y \in Exchanges, NEW z \in Exchanges, Holds(y)',
                      Holds(z)', exchange'[y].code = exchange'[z].code, y # z
               PROVE  FALSE
    OBVIOUS
  <2>1. CASE x \notin {y, z}
    BY <1>3, <1>5, <2>1 DEF CodesInv
  <2>2. CASE x = y
    BY <1>2, <1>3, <1>4, <1>5, <2>2 DEF CodesInv
  <2>3. CASE x = z
    BY <1>2, <1>3, <1>4, <1>5, <2>3 DEF CodesInv
  <2> QED
    BY <2>1, <2>2, <2>3
<1> QED
  BY <1>1, <1>6, <1>7, <1>8 DEF CodesInv

(* The answer to a token request: granted only with an entry.              *)
LEMMA AnswerCodes ==
  ASSUME CodesInv, NEW x \in Exchanges, Grant(x) \/ InvalidGrant(x)
  PROVE  CodesInv'
<1>1. codes' = codes /\ consent' = consent
  BY DEF Grant, InvalidGrant
<1>2. \A y \in Exchanges \ {x} : exchange'[y] = exchange[y]
  BY DEF Grant, InvalidGrant, CodesInv
<1>3. /\ exchange[x].at = "taken"
      /\ exchange[x] \in [at : {"taken"}, code : Codes, redirect : Redirects,
                          found : BOOLEAN]
  BY DEF Grant, InvalidGrant, CodesInv
<1>4. /\ exchange'[x].code = exchange[x].code /\ exchange'[x].found = exchange[x].found
      /\ \/ exchange'[x].at = "granted" /\ exchange[x].found
         \/ exchange'[x].at = "refused"
  BY <1>3 DEF Grant, InvalidGrant, CodesInv, Fits
<1>5. exchange' = [y \in Exchanges |-> exchange'[y]]
  BY DEF Grant, InvalidGrant, CodesInv
<1>6. \A y \in Exchanges : Holds(y)' => Holds(y) /\ exchange'[y].code = exchange[y].code
  BY <1>2, <1>3, <1>4 DEF Holds
<1>7. \A y \in Exchanges : exchange'[y].at = "granted" => exchange'[y].found
  BY <1>2, <1>3, <1>4 DEF CodesInv
<1>8. \A y \in Exchanges : exchange'[y].at = "taken" => exchange'[y] = exchange[y]
  BY <1>2, <1>4
<1>9. \A y \in Exchanges : Holds(y)' => exchange'[y].code \in DOMAIN consent \ codes
  BY <1>6 DEF CodesInv
<1>10. \A y, z \in Exchanges :
         Holds(y)' /\ Holds(z)' /\ exchange'[y].code = exchange'[z].code => y = z
  BY <1>6 DEF CodesInv
<1> QED
  BY <1>1, <1>5, <1>7, <1>8, <1>9, <1>10 DEF CodesInv

(* Every step keeps CodesInv.                                              *)
LEMMA NextCodes == CodesInv /\ [Next]_vars => CodesInv'
<1> SUFFICES ASSUME CodesInv, [Next]_vars PROVE CodesInv'
  OBVIOUS
<1>1. CASE Restart
  BY <1>1, RestartCodes
<1>2. ASSUME NEW w \in Workers, NEW k \in Codes, NEW uri \in Redirects,
             RightPassword(w, k, uri)
      PROVE  CodesInv'
  BY <1>2, MintCodes
<1>3. ASSUME NEW x \in Exchanges, NEW k \in Codes, NEW uri \in Redirects,
             TakeCode(x, k, uri)
      PROVE  CodesInv'
  BY <1>3, TakeCodes
<1>4. ASSUME NEW x \in Exchanges, Grant(x) \/ InvalidGrant(x)
      PROVE  CodesInv'
  BY <1>4, AnswerCodes
<1>5. ASSUME UNCHANGED <<codes, consent, exchange>> PROVE CodesInv'
  BY <1>5 DEF CodesInv, Holds
<1>6. CASE UNCHANGED vars
  BY <1>5, <1>6 DEF vars
<1>7. CASE Tick
  BY <1>5, <1>7 DEF Tick
<1>8. ASSUME NEW w \in Workers, NEW ip \in IPs, NEW t \in Times,
             CheckBudget(w, ip, t) \/ WrongPassword(w)
      PROVE  CodesInv'
  BY <1>5, <1>8 DEF CheckBudget, WrongPassword
<1>9. ASSUME NEW w \in Workers, WrongPassword(w) PROVE CodesInv'
  BY <1>5, <1>9 DEF WrongPassword
<1>10. ASSUME NEW t \in tokens, RefreshAccess(t) PROVE CodesInv'
  BY <1>5, <1>10 DEF RefreshAccess
<1> QED
  BY <1>1, <1>2, <1>3, <1>4, <1>6, <1>7, <1>8, <1>9, <1>10 DEF Next, Step

(* Two requests are never granted tokens for the same code, and one is     *)
(* only for a code that was minted and has been removed.                   *)
LEMMA CodesInvGrants == CodesInv => OneGrantPerConsent
<1> SUFFICES ASSUME CodesInv, NEW k \in Codes
             PROVE  /\ Cardinality(Granted(k)) <= 1
                    /\ Granted(k) # {} => k \in DOMAIN consent \ codes
  BY DEF OneGrantPerConsent
<1>1. \A x \in Granted(k) : x \in Exchanges /\ Holds(x) /\ exchange[x].code = k
  BY DEF Granted, Holds, CodesInv
<1>2. CASE Granted(k) = {}
  BY <1>2, FS_EmptySet
<1>3. CASE Granted(k) # {}
  <2>1. PICK x \in Granted(k) : TRUE
    BY <1>3
  <2>2. Granted(k) = {x}
    BY <1>1, <2>1 DEF CodesInv
  <2>3. Cardinality(Granted(k)) = 1
    BY <2>2, FS_Singleton
  <2> QED
    BY <1>1, <2>1, <2>3 DEF CodesInv
<1> QED
  BY <1>2, <1>3

(* A consent yields tokens at most once: for any number of token requests, *)
(* however they overlap, and across restarts.                              *)
THEOREM OneGrant == Spec => []OneGrantPerConsent
<1>1. Spec => []CodesInv
  BY InitCodes, NextCodes, PTL DEF Spec
<1> QED
  BY <1>1, CodesInvGrants, PTL

-----------------------------------------------------------------------------
(* The budget of failed attempts.                                          *)

(* The failures of the last FailWindow, those of them that came from the   *)
(* addresses S, and the handlers past the check for an address of S.       *)
Recent == {i \in DOMAIN failed : now < failed[i].time + FailWindow}
RecentOf(S) == {i \in Recent : failed[i].ip \in S}
PendingOf(S) == {w \in Workers : attempt[w] # Idle /\ attempt[w] \in S}

(* A handler past the check may still add a failure, so both count.        *)
Within(S, n) ==
  Cardinality(RecentOf(S)) + Cardinality(PendingOf(S)) < n + Cardinality(Workers)

FailsOK ==
  /\ now \in Nat
  /\ failed \in Seq([ip : IPs, time : Nat])
  /\ attempt \in [Workers -> IPs \cup {Idle}]
  /\ pwFails \subseteq DOMAIN failed
  /\ Recent \subseteq pwFails

BudgetInv ==
  /\ FailsOK
  /\ \A ip \in IPs : Within({ip}, MaxPerIP)
  /\ Within(IPs, MaxGlobal)

(* A recorded failure has an address and a time.                           *)
LEMMA FailureTypes ==
  ASSUME FailsOK, NEW i \in DOMAIN failed
  PROVE  failed[i].ip \in IPs /\ failed[i].time \in Nat
<1>1. failed \in Seq([ip : IPs, time : Nat]) /\ DOMAIN failed = 1 .. Len(failed)
  BY DEF FailsOK
<1>2. failed[i] \in [ip : IPs, time : Nat]
  BY <1>1, ElementOfSeq
<1> QED
  BY <1>2

(* What is counted is finite, and all handlers together are the slack.     *)
LEMMA BudgetCounts ==
  ASSUME FailsOK, NEW S
  PROVE  /\ IsFiniteSet(pwFails)
         /\ IsFiniteSet(RecentOf(S)) /\ Cardinality(RecentOf(S)) \in Nat
         /\ IsFiniteSet(PendingOf(S)) /\ Cardinality(PendingOf(S)) \in Nat
         /\ Cardinality(Workers) \in Nat
         /\ Cardinality(PendingOf(S)) <= Cardinality(Workers)
<1>1. Len(failed) \in Nat /\ DOMAIN failed = 1 .. Len(failed)
  BY DEF FailsOK
<1>2. IsFiniteSet(DOMAIN failed)
  BY <1>1, FS_Interval
<1>3. pwFails \in SUBSET DOMAIN failed /\ RecentOf(S) \in SUBSET DOMAIN failed
  BY DEF FailsOK, RecentOf, Recent
<1>4. IsFiniteSet(pwFails) /\ IsFiniteSet(RecentOf(S))
  BY <1>2, <1>3, FS_Subset
<1>5. IsFiniteSet(Workers) /\ PendingOf(S) \in SUBSET Workers
  BY OAuthAssumption DEF PendingOf
<1>6. IsFiniteSet(PendingOf(S)) /\ Cardinality(PendingOf(S)) <= Cardinality(Workers)
  BY <1>5, FS_Subset
<1> QED
  BY <1>4, <1>5, <1>6, FS_CardinalityType

(* A count that only falls stays within.                                   *)
LEMMA BudgetShrinks ==
  ASSUME FailsOK, NEW S, NEW n \in Nat, Within(S, n),
         RecentOf(S)' \subseteq RecentOf(S), PendingOf(S)' \subseteq PendingOf(S)
  PROVE  Within(S, n)'
<1>1. /\ Cardinality(RecentOf(S)') <= Cardinality(RecentOf(S))
      /\ IsFiniteSet(RecentOf(S)')
  BY BudgetCounts, FS_Subset
<1>2. /\ Cardinality(PendingOf(S)') <= Cardinality(PendingOf(S))
      /\ IsFiniteSet(PendingOf(S)')
  BY BudgetCounts, FS_Subset
<1>3. Cardinality(RecentOf(S)') \in Nat /\ Cardinality(PendingOf(S)') \in Nat
  BY <1>1, <1>2, FS_CardinalityType
<1> QED
  BY <1>1, <1>2, <1>3, BudgetCounts DEF Within

(* At the start nothing has failed.                                        *)
LEMMA InitBudget == Init => BudgetInv
<1> SUFFICES ASSUME Init PROVE BudgetInv
  OBVIOUS
<1>1. Recent = {} /\ \A S : RecentOf(S) = {} /\ PendingOf(S) = {}
  BY DEF Init, Recent, RecentOf, PendingOf
<1>2. Cardinality(Workers) \in Nat
  BY OAuthAssumption, FS_CardinalityType
<1>3. \A S, n : n \in Nat \ {0} => Within(S, n)
  BY <1>1, <1>2, FS_EmptySet DEF Within
<1>4. FailsOK
  BY <1>1 DEF FailsOK, Init
<1> QED
  BY <1>3, <1>4, OAuthAssumption DEF BudgetInv

(* Steps that record no failure and let no handler past the check.         *)
LEMMA QuietBudget ==
  ASSUME BudgetInv, FailsOK', Recent' \subseteq Recent,
         \A i \in Recent' : failed'[i] = failed[i],
         \A w \in Workers : attempt'[w] # Idle => attempt'[w] = attempt[w]
  PROVE  BudgetInv'
<1>1. \A S : RecentOf(S)' \subseteq RecentOf(S) /\ PendingOf(S)' \subseteq PendingOf(S)
  BY DEF RecentOf, PendingOf
<1>2. \A ip \in IPs : Within({ip}, MaxPerIP)'
  BY <1>1, BudgetShrinks, OAuthAssumption DEF BudgetInv
<1>3. Within(IPs, MaxGlobal)'
  BY <1>1, BudgetShrinks, OAuthAssumption DEF BudgetInv
<1> QED
  BY <1>2, <1>3 DEF BudgetInv

(* The check prunes nothing recent, for its reading of the clock is not    *)
(* ahead of it, and leaves room for every handler.                         *)
LEMMA CheckedBudget ==
  ASSUME BudgetInv, NEW w \in Workers, NEW ip \in IPs, NEW t \in Times,
         CheckBudget(w, ip, t)
  PROVE  BudgetInv'
<1> DEFINE kept == InWindow(pwFails, t)
<1>1. Recent' = Recent /\ failed' = failed /\ now' = now
  BY DEF CheckBudget, Recent
<1>2. Recent \subseteq kept /\ kept \subseteq pwFails
  <2> SUFFICES ASSUME NEW i \in Recent PROVE i \in kept
    BY DEF InWindow
  <2>1. i \in pwFails /\ i \in DOMAIN failed /\ now < failed[i].time + FailWindow
    BY DEF BudgetInv, FailsOK, Recent
  <2>2. failed[i].time \in Nat
    BY <2>1, FailureTypes DEF BudgetInv
  <2>3. t \in Nat /\ t <= now /\ now \in Nat /\ FailWindow \in Nat
    BY OAuthAssumption DEF CheckBudget, Times, BudgetInv, FailsOK
  <2> QED
    BY <2>1, <2>2, <2>3 DEF InWindow
<1>3. attempt' \in [Workers -> IPs \cup {Idle}]
  BY DEF CheckBudget, BudgetInv, FailsOK
<1>4. pwFails' = kept
  BY DEF CheckBudget
<1>5. FailsOK'
  BY <1>1, <1>2, <1>3, <1>4 DEF BudgetInv, FailsOK
<1>6. CASE TooMany(kept, ip)
  BY <1>1, <1>5, <1>6, QuietBudget DEF CheckBudget
<1>7. CASE ~TooMany(kept, ip)
  <2>1. ASSUME NEW S, NEW n \in Nat, RecentOf(S) \subseteq kept,
               ~(Cardinality({i \in kept : failed[i].ip \in S}) >= n)
        PROVE  Within(S, n)'
    <3> DEFINE listed == {i \in kept : failed[i].ip \in S}
    <3>1. IsFiniteSet(listed) /\ Cardinality(listed) \in Nat
      BY <1>2, BudgetCounts, FS_Subset, FS_CardinalityType DEF BudgetInv
    <3>2. RecentOf(S) \in SUBSET listed
      BY <2>1 DEF RecentOf
    <3>3. Cardinality(RecentOf(S)) <= Cardinality(listed)
      BY <3>1, <3>2, FS_Subset
    <3>4. RecentOf(S)' = RecentOf(S)
      BY <1>1 DEF RecentOf
    <3>5. Cardinality(PendingOf(S)') <= Cardinality(Workers)
          /\ Cardinality(PendingOf(S)') \in Nat
      <4>1. IsFiniteSet(Workers) /\ PendingOf(S)' \in SUBSET Workers
        BY OAuthAssumption DEF PendingOf
      <4> QED
        BY <4>1, FS_Subset, FS_CardinalityType
    <3>6. Cardinality(RecentOf(S)) \in Nat /\ Cardinality(Workers) \in Nat
      BY BudgetCounts DEF BudgetInv
    <3>7. Cardinality(listed) < n
      BY <2>1, <3>1
    <3>8. (Cardinality(RecentOf(S)))' = Cardinality(RecentOf(S))
      BY <3>4
    <3> HIDE DEF listed
    <3>9. Cardinality(RecentOf(S)') + Cardinality(PendingOf(S)') < n + Cardinality(Workers)
      BY <3>3, <3>5, <3>6, <3>7, <3>1, <3>8
    <3> QED
      BY <3>9 DEF Within
  <2>2. \A S : RecentOf(S) \subseteq kept
    BY <1>2 DEF RecentOf
  <2>3. Within({ip}, MaxPerIP)'
    <3>1. {i \in kept : failed[i].ip \in {ip}} = From(ip, kept)
      BY DEF From
    <3> QED
      BY <1>7, <2>1, <2>2, <3>1, OAuthAssumption DEF TooMany
  <2>4. \A other \in IPs \ {ip} : Within({other}, MaxPerIP)'
    <3> SUFFICES ASSUME NEW other \in IPs \ {ip} PROVE Within({other}, MaxPerIP)'
      OBVIOUS
    <3>1. RecentOf({other})' = RecentOf({other})
      BY <1>1 DEF RecentOf
    <3>2. PendingOf({other})' \subseteq PendingOf({other})
      BY DEF PendingOf, CheckBudget, BudgetInv, FailsOK
    <3> QED
      BY <3>1, <3>2, BudgetShrinks, OAuthAssumption DEF BudgetInv
  <2>5. Within(IPs, MaxGlobal)'
    <3>1. {i \in kept : failed[i].ip \in IPs} = kept
      BY <1>2, FailureTypes DEF BudgetInv, FailsOK
    <3> QED
      BY <1>7, <2>1, <2>2, <3>1, OAuthAssumption DEF TooMany
  <2> QED
    BY <1>5, <2>3, <2>4, <2>5 DEF BudgetInv
<1> QED
  BY <1>6, <1>7

(* A wrong password makes one pending handler one recent failure.          *)
LEMMA RecordedBudget ==
  ASSUME BudgetInv, NEW w \in Workers, WrongPassword(w)
  PROVE  BudgetInv'
<1> DEFINE a == attempt[w]
           last == Len(failed) + 1
<1>1. /\ a \in IPs /\ a # Idle /\ now' = now /\ now \in Nat
      /\ [ip |-> a, time |-> now] \in [ip : IPs, time : Nat]
      /\ failed' = Append(failed, [ip |-> a, time |-> now])
      /\ failed \in Seq([ip : IPs, time : Nat])
  BY DEF WrongPassword, BudgetInv, FailsOK
<1>2. /\ failed' \in Seq([ip : IPs, time : Nat])
      /\ Len(failed') = last
      /\ \A i \in DOMAIN failed : failed'[i] = failed[i]
      /\ failed'[last] = [ip |-> a, time |-> now]
  BY <1>1, AppendProperties
<1>3. DOMAIN failed' = DOMAIN failed \cup {last} /\ last \notin DOMAIN failed
  BY <1>1, <1>2
<1>4. Recent' \subseteq Recent \cup {last} /\ last \notin Recent
  BY <1>1, <1>2, <1>3 DEF Recent
<1>5. attempt' = [attempt EXCEPT ![w] = Idle] /\ attempt \in [Workers -> IPs \cup {Idle}]
  BY DEF WrongPassword, BudgetInv, FailsOK
<1>6. FailsOK'
  <2>1. pwFails' = pwFails \cup {last}
    BY DEF WrongPassword
  <2>2. attempt' \in [Workers -> IPs \cup {Idle}]
    BY <1>5
  <2> QED
    BY <1>1, <1>2, <1>3, <1>4, <2>1, <2>2 DEF BudgetInv, FailsOK
<1>7. ASSUME NEW S, NEW n \in Nat, Within(S, n)
      PROVE  Within(S, n)'
  <2>1. PendingOf(S)' = PendingOf(S) \ {w}
    BY <1>5 DEF PendingOf
  <2>2. CASE a \notin S
    <3>1. RecentOf(S)' \subseteq RecentOf(S)
      BY <1>2, <1>4, <2>2 DEF RecentOf, Recent
    <3> QED
      BY <1>7, <2>1, <3>1, BudgetShrinks DEF BudgetInv
  <2>3. CASE a \in S
    <3>1. RecentOf(S)' \in SUBSET (RecentOf(S) \cup {last}) /\ last \notin RecentOf(S)
      BY <1>2, <1>4 DEF RecentOf, Recent
    <3>2. /\ IsFiniteSet(RecentOf(S) \cup {last})
          /\ Cardinality(RecentOf(S) \cup {last}) = Cardinality(RecentOf(S)) + 1
      BY <3>1, BudgetCounts, FS_AddElement DEF BudgetInv
    <3>3. /\ Cardinality(RecentOf(S)') <= Cardinality(RecentOf(S)) + 1
          /\ Cardinality(RecentOf(S)') \in Nat
      BY <3>1, <3>2, FS_Subset, FS_CardinalityType
    <3>4. w \in PendingOf(S)
      BY <1>1, <2>3 DEF PendingOf
    <3>5. /\ Cardinality(PendingOf(S)') = Cardinality(PendingOf(S)) - 1
          /\ Cardinality(PendingOf(S)') \in Nat
      BY <2>1, <3>4, BudgetCounts, FS_RemoveElement, FS_CardinalityType DEF BudgetInv
    <3>6. Cardinality(RecentOf(S)) \in Nat /\ Cardinality(PendingOf(S)) \in Nat
          /\ Cardinality(Workers) \in Nat
      BY BudgetCounts DEF BudgetInv
    <3> QED
      BY <1>7, <3>3, <3>5, <3>6 DEF Within
  <2> QED
    BY <2>2, <2>3
<1> QED
  BY <1>6, <1>7, OAuthAssumption DEF BudgetInv

(* Every step keeps the budget.                                            *)
LEMMA NextBudget == BudgetInv /\ [Next]_vars => BudgetInv'
<1> SUFFICES ASSUME BudgetInv, [Next]_vars PROVE BudgetInv'
  OBVIOUS
<1> USE DEF BudgetInv, FailsOK
<1>1. CASE Restart
  <2>1. Recent' = {}
    BY <1>1 DEF Restart, Recent
  <2>2. FailsOK'
    BY <1>1, <2>1 DEF Restart
  <2> QED
    BY <1>1, <2>1, <2>2, QuietBudget DEF Restart
<1>2. CASE Tick
  <2>1. now' \in Nat /\ now < now' /\ failed' = failed
    BY <1>2 DEF Tick, consentPage
  <2>2. Recent' \subseteq Recent
    BY <2>1, FailureTypes, OAuthAssumption DEF Recent
  <2>3. FailsOK'
    BY <1>2, <2>1, <2>2 DEF Tick, consentPage
  <2> QED
    BY <1>2, <2>1, <2>2, <2>3, QuietBudget DEF Tick, consentPage
<1>3. ASSUME UNCHANGED <<now, failed, pwFails>>,
             attempt' \in [Workers -> IPs \cup {Idle}],
             \A w \in Workers : attempt'[w] # Idle => attempt'[w] = attempt[w]
      PROVE  BudgetInv'
  <2>1. Recent' = Recent
    BY <1>3 DEF Recent
  <2>2. FailsOK'
    BY <1>3, <2>1
  <2> QED
    BY <1>3, <2>1, <2>2, QuietBudget DEF Recent
<1>4. ASSUME NEW w \in Workers, NEW k \in Codes, NEW uri \in Redirects,
             RightPassword(w, k, uri)
      PROVE  BudgetInv'
  BY <1>3, <1>4 DEF RightPassword
<1>5. ASSUME NEW x \in Exchanges, NEW k \in Codes, NEW uri \in Redirects,
             TakeCode(x, k, uri)
      PROVE  BudgetInv'
  BY <1>3, <1>5 DEF TakeCode, consentPage
<1>6. ASSUME NEW x \in Exchanges, Grant(x) \/ InvalidGrant(x) PROVE BudgetInv'
  BY <1>3, <1>6 DEF Grant, InvalidGrant, consentPage
<1>7. ASSUME NEW t \in tokens, RefreshAccess(t) PROVE BudgetInv'
  BY <1>3, <1>7 DEF RefreshAccess, consentPage
<1>8. CASE UNCHANGED vars
  BY <1>3, <1>8 DEF vars
<1> QED
  BY <1>1, <1>2, <1>4, <1>5, <1>6, <1>7, <1>8, CheckedBudget, RecordedBudget
     DEF Next, Step

(* Within any FailWindow a process takes fewer wrong passwords than the    *)
(* budget plus the handlers that run at a time: for any addresses, limits  *)
(* and numbers of handlers, however stale the clock they read.             *)
THEOREM FailuresAreBounded == Spec => []FailuresBounded
<1>1. ASSUME BudgetInv PROVE FailuresBounded
  <2>1. RecentOf(IPs) = Recent
    BY <1>1, FailureTypes DEF BudgetInv, RecentOf, Recent
  <2>2. \A ip : RecentOf({ip}) = From(ip, Recent)
    BY DEF RecentOf, From
  <2>3. \A S, n : n \in Nat /\ Within(S, n) =>
          Cardinality(RecentOf(S)) < n + Cardinality(Workers)
    BY <1>1, BudgetCounts DEF Within, BudgetInv
  <2> QED
    BY <1>1, <2>1, <2>2, <2>3, OAuthAssumption DEF FailuresBounded, BudgetInv, Recent
<1>2. Spec => []BudgetInv
  BY InitBudget, NextBudget, PTL DEF Spec
<1> QED
  BY <1>1, <1>2, PTL

-----------------------------------------------------------------------------
(* Types of the OAuth server.                                              *)

(* What is known of the codes, of the failures and of a token request.     *)
ConsentTypes ==
  /\ DOMAIN consent \subseteq Codes
  /\ \A k \in DOMAIN consent : consent[k] \in Entries
  /\ codes \subseteq DOMAIN consent

FailTypes ==
  /\ failed \in Seq([ip : IPs, time : Times])
  /\ Len(failed) <= MaxFails
  /\ pwFails \subseteq DOMAIN failed
  /\ attempt \in [Workers -> IPs \cup {Idle}]

RequestOK(e) ==
  \/ e.at \in {"none", "lost"}
  \/ /\ e.at \in {"taken", "granted", "refused"}
     /\ e.redirect \in Redirects
     /\ e.code \in Codes
     /\ e.found => e.code \in DOMAIN consent

TokenTypes == tokens \subseteq [kind : {"access", "refresh"}, exp : Nat]

(* TypeOK by its parts.                                                    *)
LEMMA TypeParts ==
  TypeOK <=> /\ now \in Times /\ ConsentTypes /\ FailTypes /\ TokenTypes
             /\ \A x \in Exchanges : RequestOK(exchange[x])
BY DEF TypeOK, ConsentTypes, FailTypes, TokenTypes, RequestOK

(* At the start nothing has happened.                                      *)
LEMMA InitTypes == Init => TypeOK
<1> SUFFICES ASSUME Init PROVE TypeOK
  OBVIOUS
<1>1. now \in Times
  BY OAuthAssumption DEF Init, Times
<1>2. ConsentTypes /\ TokenTypes /\ \A x \in Exchanges : RequestOK(exchange[x])
  BY DEF Init, ConsentTypes, TokenTypes, RequestOK
<1>3. FailTypes
  <2>1. failed \in Seq([ip : IPs, time : Times]) /\ Len(failed) = 0
    BY DEF Init
  <2> QED
    BY <2>1, OAuthAssumption DEF Init, FailTypes
<1> QED
  BY <1>1, <1>2, <1>3, TypeParts

(* The clock and the consent page: codes are only minted, and a failure is *)
(* recorded at the time of the clock.                                      *)
LEMMA ConsentPageTypes ==
  ASSUME TypeOK,
         \/ Tick
         \/ \E w \in Workers :
              \/ \E ip \in IPs, t \in Times : CheckBudget(w, ip, t)
              \/ WrongPassword(w)
              \/ \E k \in Codes, uri \in Redirects : RightPassword(w, k, uri)
  PROVE  TypeOK'
<1> USE OAuthAssumption
<1>a. /\ now \in Times /\ ConsentTypes /\ FailTypes /\ TokenTypes
      /\ \A x \in Exchanges : RequestOK(exchange[x])
  BY TypeParts
<1>b. ASSUME now' \in Times, FailTypes', UNCHANGED <<codes, consent, exchange, tokens>>
      PROVE  TypeOK'
  <2>1. ConsentTypes' /\ TokenTypes' /\ \A x \in Exchanges : RequestOK(exchange[x])'
    BY <1>a, <1>b DEF ConsentTypes, TokenTypes, RequestOK
  <2> QED
    BY <1>b, <2>1 DEF TypeOK, ConsentTypes, FailTypes, TokenTypes, RequestOK
<1>1. CASE Tick
  BY <1>1, <1>a, <1>b DEF Tick, Times, FailTypes, consentPage
<1>2. ASSUME NEW w \in Workers, NEW ip \in IPs, NEW t \in Times, CheckBudget(w, ip, t)
      PROVE  TypeOK'
  BY <1>2, <1>a, <1>b DEF CheckBudget, FailTypes, InWindow
<1>3. ASSUME NEW w \in Workers, WrongPassword(w) PROVE TypeOK'
  <2> DEFINE f == [ip |-> attempt[w], time |-> now]
  <2>1. /\ f \in [ip : IPs, time : Times] /\ failed' = Append(failed, f)
        /\ failed \in Seq([ip : IPs, time : Times]) /\ Len(failed) < MaxFails
        /\ pwFails' = pwFails \cup {Len(failed) + 1} /\ pwFails \subseteq DOMAIN failed
    BY <1>3, <1>a DEF WrongPassword, FailTypes
  <2> HIDE DEF f
  <2>2. /\ failed' \in Seq([ip : IPs, time : Times])
        /\ Len(failed') = Len(failed) + 1
        /\ DOMAIN failed' = DOMAIN failed \cup {Len(failed) + 1}
    BY <2>1, AppendProperties
  <2>3. Len(failed') <= MaxFails
    BY <2>1, <2>2
  <2>4. FailTypes'
    BY <1>3, <1>a, <2>1, <2>2, <2>3 DEF WrongPassword, FailTypes
  <2> QED
    BY <1>3, <1>a, <1>b, <2>4 DEF WrongPassword
<1>4. ASSUME NEW w \in Workers, NEW k \in Codes, NEW uri \in Redirects,
             RightPassword(w, k, uri)
      PROVE  TypeOK'
  <2>1. /\ UNCHANGED <<now, failed, pwFails, exchange, tokens>>
        /\ attempt' = [attempt EXCEPT ![w] = Idle]
        /\ codes' = codes \cup {k}
        /\ consent' = [c \in DOMAIN consent \cup {k} |->
             IF c = k THEN [redirect |-> uri, expires |-> now + CodeTTL]
                      ELSE consent[c]]
    BY <1>4 DEF RightPassword
  <2>2. now' \in Times /\ TokenTypes' /\ FailTypes'
    BY <1>a, <2>1 DEF TokenTypes, FailTypes
  <2>3. [redirect |-> uri, expires |-> now + CodeTTL] \in Entries
    BY <1>a DEF Entries, Times
  <2>4. ConsentTypes' /\ DOMAIN consent \subseteq DOMAIN consent'
    BY <1>a, <2>1, <2>3 DEF ConsentTypes
  <2>5. \A x \in Exchanges : RequestOK(exchange[x])'
    BY <1>a, <2>1, <2>4 DEF RequestOK
  <2> QED
    BY <2>2, <2>4, <2>5 DEF TypeOK, ConsentTypes, FailTypes, TokenTypes, RequestOK
<1> QED
  BY <1>1, <1>2, <1>3, <1>4

(* Token requests, refreshes and a restart: nothing but codes and the      *)
(* failures is forgotten.                                                  *)
LEMMA TokenPageTypes ==
  ASSUME TypeOK, CodesInv,
         \/ Restart
         \/ \E x \in Exchanges :
              \/ \E k \in Codes, uri \in Redirects : TakeCode(x, k, uri)
              \/ Grant(x) \/ InvalidGrant(x)
         \/ \E t \in tokens : RefreshAccess(t)
  PROVE  TypeOK'
<1> USE OAuthAssumption
<1>a. /\ now \in Times /\ now \in Nat /\ ConsentTypes /\ FailTypes /\ TokenTypes
      /\ \A x \in Exchanges : RequestOK(exchange[x])
  BY TypeParts DEF Times
<1>b. ASSUME UNCHANGED <<now, consent>>, codes' \subseteq codes, FailTypes',
             TokenTypes', \A x \in Exchanges : RequestOK(exchange'[x])
      PROVE  TypeOK'
  <2>1. ConsentTypes' /\ \A x \in Exchanges : RequestOK(exchange[x])'
    BY <1>a, <1>b DEF ConsentTypes, RequestOK
  <2> QED
    BY <1>a, <1>b, <2>1 DEF TypeOK, ConsentTypes, FailTypes, TokenTypes, RequestOK
<1>c. UNCHANGED consentPage => FailTypes'
  BY <1>a DEF consentPage, FailTypes
<1>d. ASSUME NEW kind \in {"access", "refresh"}, NEW ttl \in Nat
      PROVE  Token(kind, ttl) \in [kind : {"access", "refresh"}, exp : Nat]
  BY <1>a DEF Token
<1>1. CASE Restart
  <2>1. FailTypes'
    <3>1. failed' = <<>> /\ failed' \in Seq([ip : IPs, time : Times]) /\ Len(failed') = 0
      BY <1>1 DEF Restart
    <3> QED
      BY <1>1, <3>1 DEF Restart, FailTypes
  <2>2. \A x \in Exchanges : RequestOK(exchange'[x])
    BY <1>1, <1>a DEF Restart, RequestOK
  <2> QED
    BY <1>1, <1>a, <1>b, <2>1, <2>2 DEF Restart, TokenTypes
<1>2. ASSUME NEW x \in Exchanges, NEW k \in Codes, NEW uri \in Redirects,
             TakeCode(x, k, uri)
      PROVE  TypeOK'
  <2> DEFINE new == [at |-> "taken", code |-> k, redirect |-> uri, found |-> k \in codes]
  <2>1. RequestOK(new)
    BY <1>a DEF RequestOK, ConsentTypes
  <2>2. /\ exchange' = [exchange EXCEPT ![x] = new] /\ codes' \subseteq codes
        /\ UNCHANGED <<now, consent, consentPage, tokens>>
    BY <1>2 DEF TakeCode
  <2> HIDE DEF new
  <2>3. \A y \in Exchanges : RequestOK(exchange'[y])
    BY <1>a, <2>1, <2>2 DEF CodesInv
  <2> QED
    BY <1>a, <1>b, <1>c, <2>2, <2>3 DEF TokenTypes
<1>3. ASSUME NEW x \in Exchanges, Grant(x) \/ InvalidGrant(x) PROVE TypeOK'
  <2>1. PICK p \in {"granted", "refused"} :
          exchange' = [exchange EXCEPT ![x] = [exchange[x] EXCEPT !.at = p]]
    BY <1>3 DEF Grant, InvalidGrant
  <2> DEFINE new == [exchange[x] EXCEPT !.at = p]
  <2>2. exchange[x] \in [at : {"taken"}, code : Codes, redirect : Redirects,
                         found : BOOLEAN]
    BY <1>3 DEF Grant, InvalidGrant, CodesInv
  <2>3. /\ new.at = p /\ new.code = exchange[x].code /\ new.found = exchange[x].found
        /\ new.redirect = exchange[x].redirect
    BY <2>2
  <2>4. exchange[x].at = "taken" /\ RequestOK(exchange[x])
    BY <1>a, <2>2
  <2> HIDE DEF new
  <2>5. RequestOK(new)
    BY <2>3, <2>4 DEF RequestOK
  <2>6. \A y \in Exchanges : RequestOK(exchange'[y])
    BY <1>a, <2>1, <2>5 DEF CodesInv, new
  <2>7. /\ UNCHANGED <<now, codes, consent, consentPage>>
        /\ tokens' \subseteq
             tokens \cup {Token("access", AccessTTL), Token("refresh", RefreshTTL)}
    BY <1>3 DEF Grant, InvalidGrant
  <2>8. TokenTypes'
    <3>1. \A t \in {Token("access", AccessTTL), Token("refresh", RefreshTTL)} :
            t \in [kind : {"access", "refresh"}, exp : Nat]
      BY <1>d
    <3> QED
      BY <1>a, <2>7, <3>1 DEF TokenTypes
  <2> QED
    BY <1>b, <1>c, <2>6, <2>7, <2>8
<1>4. ASSUME NEW t \in tokens, RefreshAccess(t) PROVE TypeOK'
  <2>1. /\ UNCHANGED <<now, codes, consent, consentPage, exchange>>
        /\ tokens' = tokens \cup {Token("access", AccessTTL)}
    BY <1>4 DEF RefreshAccess
  <2>2. TokenTypes'
    BY <1>a, <1>d, <2>1 DEF TokenTypes
  <2> QED
    BY <1>a, <1>b, <1>c, <2>1, <2>2
<1> QED
  BY <1>1, <1>2, <1>3, <1>4

(* Every step of the OAuth server keeps the types.                         *)
LEMMA OAuthTypes == Spec => []TypeOK
<1>1. TypeOK /\ CodesInv /\ [Next]_vars => TypeOK'
  <2> SUFFICES ASSUME TypeOK, CodesInv, [Next]_vars PROVE TypeOK'
    OBVIOUS
  <2>1. CASE UNCHANGED vars
    BY <2>1 DEF vars, TypeOK
  <2> QED
    BY <2>1, ConsentPageTypes, TokenPageTypes DEF Next, Step
<1> QED
  BY <1>1, InitTypes, InitCodes, NextCodes, PTL DEF Spec

-----------------------------------------------------------------------------
(* The HTTP API.                                                           *)

(* Everything that lets somebody watch is traced back to a token: a URL,   *)
(* and a request that may still sign one, to an access token, an access    *)
(* token to a refresh token.                                               *)
Reading == [at : {"reading"}, since : Times]

AccessInv ==
  /\ now \in Nat
  /\ tokens \subseteq [kind : {"access", "refresh"}, exp : Nat]
  /\ urls \subseteq [cam : Cameras, exp : Nat]
  /\ intent \in [Intents -> {Nobody} \cup Reading]
  /\ AccessEndsWithRefresh
  /\ \A h \in Intents : intent[h] # Nobody =>
       \E t \in tokens : t.kind = "access" /\ intent[h].since <= t.exp
  /\ \A u \in urls :
       \E t \in tokens : t.kind = "access" /\ u.exp <= t.exp + ReadTimeout + PlayTTL
  /\ \A q \in Viewers : viewer[q] # Nobody =>
       \E t \in tokens :
         t.kind = "access" /\ viewer[q].since <= t.exp + ReadTimeout + PlayTTL

(* Steps of the OAuth server mint tokens and forget none.                  *)
LEMMA StepTokens ==
  ASSUME AccessInv, [Next]_vars
  PROVE  /\ now' \in Nat
         /\ tokens \subseteq tokens'
         /\ tokens' \subseteq [kind : {"access", "refresh"}, exp : Nat]
         /\ AccessEndsWithRefresh'
<1> USE OAuthAssumption
<1>0. AccessTTL \in Nat /\ RefreshTTL \in Nat /\ now \in Nat
  BY DEF AccessInv
<1>1. ASSUME tokens' = tokens, now' \in Nat
      PROVE  /\ now' \in Nat
             /\ tokens \subseteq tokens'
             /\ tokens' \subseteq [kind : {"access", "refresh"}, exp : Nat]
             /\ AccessEndsWithRefresh'
  BY <1>1 DEF AccessInv, AccessEndsWithRefresh
<1>2. CASE Tick
  BY <1>0, <1>1, <1>2 DEF Tick
<1>3. ASSUME now' = now, tokens' = tokens
      PROVE  /\ now' \in Nat
             /\ tokens \subseteq tokens'
             /\ tokens' \subseteq [kind : {"access", "refresh"}, exp : Nat]
             /\ AccessEndsWithRefresh'
  BY <1>0, <1>1, <1>3
<1>4. ASSUME NEW x \in Exchanges, Grant(x)
      PROVE  /\ now' \in Nat
             /\ tokens \subseteq tokens'
             /\ tokens' \subseteq [kind : {"access", "refresh"}, exp : Nat]
             /\ AccessEndsWithRefresh'
  <2>1. /\ tokens' = tokens \cup {Token("access", AccessTTL), Token("refresh", RefreshTTL)}
        /\ now' = now
    BY <1>4 DEF Grant
  <2>2. /\ Token("access", AccessTTL).exp <= Token("refresh", RefreshTTL).exp + AccessTTL
        /\ Token("refresh", RefreshTTL).kind = "refresh"
        /\ {Token("access", AccessTTL), Token("refresh", RefreshTTL)}
             \subseteq [kind : {"access", "refresh"}, exp : Nat]
    BY <1>0 DEF Token
  <2>3. AccessEndsWithRefresh'
    BY <2>1, <2>2 DEF AccessInv, AccessEndsWithRefresh
  <2> QED
    BY <1>0, <2>1, <2>2, <2>3 DEF AccessInv
<1>5. ASSUME NEW t \in tokens, RefreshAccess(t)
      PROVE  /\ now' \in Nat
             /\ tokens \subseteq tokens'
             /\ tokens' \subseteq [kind : {"access", "refresh"}, exp : Nat]
             /\ AccessEndsWithRefresh'
  <2>1. tokens' = tokens \cup {Token("access", AccessTTL)} /\ now' = now
    BY <1>5 DEF RefreshAccess
  <2>2. /\ t.kind = "refresh" /\ t.exp \in Nat /\ now <= t.exp
    BY <1>5 DEF RefreshAccess, Verify, AccessInv
  <2>3. /\ Token("access", AccessTTL).exp <= t.exp + AccessTTL
        /\ Token("access", AccessTTL) \in [kind : {"access", "refresh"}, exp : Nat]
    BY <1>0, <2>2 DEF Token
  <2>4. AccessEndsWithRefresh'
    BY <2>1, <2>2, <2>3 DEF AccessInv, AccessEndsWithRefresh
  <2> QED
    BY <1>0, <2>1, <2>3, <2>4 DEF AccessInv
<1>6. CASE Restart
  BY <1>3, <1>6 DEF Restart
<1>7. ASSUME NEW w \in Workers, NEW ip \in IPs, NEW t \in Times, CheckBudget(w, ip, t)
      PROVE  tokens' = tokens /\ now' = now
  BY <1>7 DEF CheckBudget
<1>8. ASSUME NEW w \in Workers, WrongPassword(w) PROVE tokens' = tokens /\ now' = now
  BY <1>8 DEF WrongPassword
<1>9. ASSUME NEW w \in Workers, NEW k \in Codes, NEW uri \in Redirects,
             RightPassword(w, k, uri)
      PROVE  tokens' = tokens /\ now' = now
  BY <1>9 DEF RightPassword
<1>10. ASSUME NEW x \in Exchanges, NEW k \in Codes, NEW uri \in Redirects,
              TakeCode(x, k, uri)
       PROVE  tokens' = tokens /\ now' = now
  BY <1>10 DEF TakeCode
<1>11. ASSUME NEW x \in Exchanges, InvalidGrant(x) PROVE tokens' = tokens /\ now' = now
  BY <1>11 DEF InvalidGrant
<1>12. CASE UNCHANGED vars
  BY <1>3, <1>12 DEF vars
<1> QED
  BY <1>2, <1>3, <1>4, <1>5, <1>6, <1>7, <1>8, <1>9, <1>10, <1>11, <1>12
     DEF Next, Step

(* At the start there is no token, no request and no URL.                  *)
LEMMA InitAccess == ApiInit => AccessInv
BY DEF ApiInit, Init, AccessInv, AccessEndsWithRefresh, Nobody

(* A request whose camera has been hidden ever since it came is of a       *)
(* hidden camera, and has not been admitted.                               *)
Served == [at : {"verified", "admitted", "watching"}, cam : Cameras, since : Times,
           hidden : BOOLEAN]

ViewerInv ==
  /\ viewer \in [Viewers -> {Nobody} \cup Served]
  /\ \A q \in Viewers : viewer[q] \in Served =>
       /\ viewer[q].hidden => viewer[q].cam \notin exposed
       /\ viewer[q].at # "verified" => ~viewer[q].hidden

LEMMA ServedIsNotNobody ==
  /\ \A r \in Served : r # Nobody /\ r.at \in {"verified", "admitted", "watching"}
  /\ Nobody.at = "idle"
BY DEF Served, Nobody

(* A request that goes on to another stage is the same request.            *)
LEMMA StageOfServed ==
  ASSUME NEW r \in Served, NEW stage \in {"admitted", "watching"}
  PROVE  /\ [r EXCEPT !.at = stage] \in Served
         /\ [r EXCEPT !.at = stage].at = stage
         /\ [r EXCEPT !.at = stage].cam = r.cam
         /\ [r EXCEPT !.at = stage].since = r.since
         /\ [r EXCEPT !.at = stage].hidden = r.hidden
BY DEF Served

(* Admission looks at the exposure list; an edit of it that exposes the    *)
(* camera again ends the time it was hidden.                               *)
LEMMA NextViewer == TypeOK /\ AccessInv /\ ViewerInv /\ [ApiNext]_allVars => ViewerInv'
<1> SUFFICES ASSUME TypeOK, AccessInv, ViewerInv, [ApiNext]_allVars PROVE ViewerInv'
  OBVIOUS
<1>1. ASSUME NEW q \in Viewers, NEW new \in {Nobody} \cup Served,
             viewer' = [viewer EXCEPT ![q] = new], exposed' = exposed,
             new \in Served =>
               /\ new.hidden => new.cam \notin exposed
               /\ new.at # "verified" => ~new.hidden
      PROVE  ViewerInv'
  BY <1>1 DEF ViewerInv
<1>2. ASSUME viewer' = viewer, exposed' = exposed PROVE ViewerInv'
  BY <1>2 DEF ViewerInv
<1>3. ASSUME NEW h \in Intents,
             \/ \E t \in tokens : Authorize(h, t)
             \/ \E cam \in Cameras, supported \in SUBSET Protocols :
                  Execute(h, cam, supported)
             \/ Answer(h)
      PROVE  ViewerInv'
  BY <1>2, <1>3 DEF Authorize, Execute, Answer
<1>4. ASSUME NEW q \in Viewers, NEW u \in urls, Arrive(q, u)
      PROVE  ViewerInv'
  <2> DEFINE new == [at |-> "verified", cam |-> u.cam, since |-> now,
                     hidden |-> u.cam \notin exposed]
  <2>1. u.cam \in Cameras /\ now \in Times
    BY DEF AccessInv, TypeOK
  <2>2. /\ new \in Served
        /\ new.hidden <=> (u.cam \notin exposed)
        /\ new.cam = u.cam /\ new.at = "verified"
    BY <2>1 DEF Served
  <2>3. viewer' = [viewer EXCEPT ![q] = new] /\ exposed' = exposed
    BY <1>4 DEF Arrive
  <2> QED
    BY <1>1, <2>2, <2>3
<1>5. ASSUME NEW q \in Viewers, Admit(q) \/ Begin(q)
      PROVE  ViewerInv'
  <2>1. PICK stage \in {"admitted", "watching"} :
          viewer' = [viewer EXCEPT ![q].at = stage] /\ exposed' = exposed
    BY <1>5 DEF Admit, Begin
  <2>2. viewer[q] \in Served
    BY <1>5, ServedIsNotNobody DEF Admit, Begin, ViewerInv
  <2>3. ~viewer[q].hidden
    BY <1>5, <2>2 DEF Admit, Begin, ViewerInv
  <2> DEFINE new == [viewer[q] EXCEPT !.at = stage]
  <2>4. new \in Served /\ ~new.hidden
    BY <2>2, <2>3, StageOfServed
  <2>5. viewer' = [viewer EXCEPT ![q] = new]
    BY <2>1
  <2> QED
    BY <1>1, <2>1, <2>4, <2>5
<1>6. ASSUME NEW q \in Viewers, Unknown(q) \/ Leave(q)
      PROVE  ViewerInv'
  BY <1>1, <1>6, ServedIsNotNobody DEF Unknown, Leave
<1>7. ASSUME NEW S \in SUBSET Cameras, SetExposed(S)
      PROVE  ViewerInv'
  <2>1. /\ exposed' = S
        /\ viewer' = [q \in Viewers |->
             IF viewer[q] # Nobody /\ viewer[q].cam \in S
             THEN [viewer[q] EXCEPT !.hidden = FALSE] ELSE viewer[q]]
    BY <1>7 DEF SetExposed
  <2>2. \A r \in Served :
          /\ [r EXCEPT !.hidden = FALSE] \in Served
          /\ ~[r EXCEPT !.hidden = FALSE].hidden
    BY DEF Served
  <2>3. ASSUME NEW q \in Viewers, viewer[q] \in Served, viewer[q].cam \in S
        PROVE  viewer'[q] \in Served /\ ~viewer'[q].hidden
    BY <2>1, <2>2, <2>3, ServedIsNotNobody
  <2>4. ASSUME NEW q \in Viewers, viewer[q] = Nobody \/ viewer[q].cam \notin S
        PROVE  viewer'[q] = viewer[q]
    BY <2>1, <2>4
  <2>5. viewer' \in [Viewers -> {Nobody} \cup Served]
    <3>1. \A q \in Viewers : viewer'[q] \in {Nobody} \cup Served
      BY <2>3, <2>4 DEF ViewerInv
    <3> QED
      BY <2>1, <3>1
  <2>6. ASSUME NEW q \in Viewers, viewer'[q] \in Served
        PROVE  /\ viewer'[q].hidden => viewer'[q].cam \notin S
               /\ viewer'[q].at # "verified" => ~viewer'[q].hidden
    BY <2>3, <2>4, <2>6 DEF ViewerInv
  <2>7. \A q \in Viewers : viewer'[q] \in Served =>
          /\ viewer'[q].hidden => viewer'[q].cam \notin S
          /\ viewer'[q].at # "verified" => ~viewer'[q].hidden
    BY <2>6
  <2>8. exposed' = S
    BY <2>1
  <2> QED
    BY <2>5, <2>7, <2>8 DEF ViewerInv
<1>8. CASE ApiRestart
  BY <1>8, ServedIsNotNobody DEF ApiRestart, ViewerInv
<1>9. CASE UNCHANGED apiVars
  BY <1>2, <1>9 DEF apiVars
<1> QED
  BY <1>3, <1>4, <1>5, <1>6, <1>7, <1>8, <1>9 DEF ApiNext, allVars

(* The steps of the API: a request is let pass only with an access token   *)
(* that is still good, a URL is signed at most ReadTimeout later and lives *)
(* at most PlayTTL; a stream request comes with a URL that is still good,  *)
(* and keeps the time it came.                                             *)
LEMMA NextAccess ==
  TypeOK /\ AccessInv /\ ViewerInv /\ [ApiNext]_allVars => AccessInv'
<1> SUFFICES ASSUME TypeOK, AccessInv, ViewerInv, [ApiNext]_allVars PROVE AccessInv'
  OBVIOUS
<1>0. /\ SignalTTL \in Nat /\ PlayTTL \in Nat /\ SignalTTL <= PlayTTL
      /\ ReadTimeout \in Nat /\ now \in Nat
  BY ApiAssumption DEF AccessInv
<1>1. ASSUME [Next]_vars, urls' = urls,
             intent' \in [Intents -> {Nobody} \cup Reading],
             \A h \in Intents : intent'[h] \in {Nobody, intent[h]},
             \A q \in Viewers : viewer'[q] \in {Nobody, viewer[q]}
      PROVE  AccessInv'
  <2>1. /\ now' \in Nat
        /\ tokens \subseteq tokens'
        /\ tokens' \subseteq [kind : {"access", "refresh"}, exp : Nat]
        /\ AccessEndsWithRefresh'
    BY <1>1, StepTokens
  <2> QED
    BY <1>1, <2>1 DEF AccessInv
<1>2. ASSUME UNCHANGED vars, intent' = intent,
             urls' \subseteq [cam : Cameras, exp : Nat],
             \A u \in urls' :
               \E t \in tokens : t.kind = "access" /\ u.exp <= t.exp + ReadTimeout + PlayTTL,
             \A q \in Viewers : viewer'[q] # Nobody =>
               \E t \in tokens : /\ t.kind = "access"
                                 /\ viewer'[q].since <= t.exp + ReadTimeout + PlayTTL
      PROVE  AccessInv'
  BY <1>2 DEF AccessInv, AccessEndsWithRefresh, vars
<1>3. ASSUME NEW h \in Intents, NEW t \in tokens, Authorize(h, t)
      PROVE  AccessInv'
  <2> DEFINE new == [at |-> "reading", since |-> now]
  <2>1. t.kind = "access" /\ t.exp \in Nat /\ now <= t.exp
    BY <1>3 DEF Authorize, Verify, AccessInv
  <2>2. new \in Reading /\ new.since = now
    BY DEF Reading, TypeOK
  <2>3. /\ intent' = [intent EXCEPT ![h] = new]
        /\ UNCHANGED <<vars, urls, viewer>>
    BY <1>3 DEF Authorize
  <2> HIDE DEF new
  <2>4. intent' \in [Intents -> {Nobody} \cup Reading]
    BY <2>2, <2>3 DEF AccessInv
  <2>5. \A g \in Intents : intent'[g] # Nobody =>
          \E s \in tokens : s.kind = "access" /\ intent'[g].since <= s.exp
    <3> SUFFICES ASSUME NEW g \in Intents, intent'[g] # Nobody
                 PROVE  \E s \in tokens : s.kind = "access" /\ intent'[g].since <= s.exp
      OBVIOUS
    <3>1. CASE g = h
      BY <2>1, <2>2, <2>3, <3>1 DEF AccessInv
    <3>2. CASE g # h
      BY <2>3, <3>2 DEF AccessInv
    <3> QED
      BY <3>1, <3>2
  <2> QED
    BY <2>3, <2>4, <2>5 DEF AccessInv, AccessEndsWithRefresh, vars
<1>4. ASSUME NEW h \in Intents, Answer(h)
      PROVE  AccessInv'
  <2>1. /\ UNCHANGED <<vars, urls, viewer>>
        /\ intent' \in [Intents -> {Nobody} \cup Reading]
        /\ \A g \in Intents : intent'[g] \in {Nobody, intent[g]}
    BY <1>4 DEF Answer, AccessInv
  <2> QED
    BY <1>1, <2>1
<1>5. ASSUME NEW h \in Intents, NEW cam \in Cameras, NEW supported \in SUBSET Protocols,
             Execute(h, cam, supported)
      PROVE  AccessInv'
  <2>1. PICK p \in Chosen(supported) :
          urls' = urls \cup {[cam |-> cam, exp |-> now + TTL(p)]}
    BY <1>5 DEF Execute
  <2>2. intent[h] \in Reading /\ now <= intent[h].since + ReadTimeout
    BY <1>5 DEF Execute, AccessInv
  <2>3. intent[h].since \in Nat
    BY <2>2, OAuthAssumption DEF Reading, Times
  <2>4. PICK t \in tokens : t.kind = "access" /\ intent[h].since <= t.exp
    BY <1>5 DEF Execute, AccessInv
  <2>5. TTL(p) \in Nat /\ TTL(p) <= PlayTTL
    BY <1>0 DEF TTL
  <2>6. t.exp \in Nat
    BY <2>4 DEF AccessInv
  <2>7. now + TTL(p) <= t.exp + ReadTimeout + PlayTTL /\ now + TTL(p) \in Nat
    BY <1>0, <2>2, <2>3, <2>4, <2>5, <2>6
  <2>8. \A u \in urls' :
          \E s \in tokens : s.kind = "access" /\ u.exp <= s.exp + ReadTimeout + PlayTTL
    BY <2>1, <2>4, <2>7 DEF AccessInv
  <2>9. urls' \subseteq [cam : Cameras, exp : Nat]
    BY <2>1, <2>7 DEF AccessInv
  <2> QED
    BY <1>2, <1>5, <2>8, <2>9 DEF Execute, AccessInv
<1>6. ASSUME NEW q \in Viewers, NEW u \in urls, Arrive(q, u)
      PROVE  AccessInv'
  <2>1. u.exp \in Nat /\ now <= u.exp
    BY <1>6 DEF Arrive, VerifyURL, AccessInv
  <2>2. PICK t \in tokens : t.kind = "access" /\ u.exp <= t.exp + ReadTimeout + PlayTTL
    BY DEF AccessInv
  <2>3. t.exp \in Nat /\ now <= t.exp + ReadTimeout + PlayTTL
    BY <1>0, <2>1, <2>2 DEF AccessInv
  <2>4. /\ \A r \in Viewers \ {q} : viewer'[r] = viewer[r]
        /\ viewer'[q] # Nobody => viewer'[q].since = now
    BY <1>6 DEF Arrive
  <2>5. \A r \in Viewers : viewer'[r] # Nobody =>
          \E s \in tokens : s.kind = "access" /\ viewer'[r].since <= s.exp + ReadTimeout + PlayTTL
    BY <2>2, <2>3, <2>4 DEF AccessInv
  <2> QED
    BY <1>2, <1>6, <2>5 DEF Arrive, AccessInv
<1>7. ASSUME NEW q \in Viewers, Admit(q) \/ Begin(q)
      PROVE  AccessInv'
  <2>1. PICK stage \in {"admitted", "watching"} :
          viewer' = [viewer EXCEPT ![q].at = stage] /\ UNCHANGED <<vars, intent, urls>>
    BY <1>7 DEF Admit, Begin
  <2>2. viewer[q] \in Served
    BY <1>7, ServedIsNotNobody DEF Admit, Begin, ViewerInv
  <2>3. viewer'[q].since = viewer[q].since /\ viewer[q] # Nobody
    BY <2>1, <2>2, StageOfServed, ServedIsNotNobody DEF ViewerInv
  <2>4. \A r \in Viewers : viewer'[r] # Nobody =>
          viewer[r] # Nobody /\ viewer'[r].since = viewer[r].since
    BY <2>1, <2>3 DEF ViewerInv
  <2> QED
    BY <1>2, <2>1, <2>4 DEF AccessInv
<1>8. ASSUME NEW q \in Viewers, Unknown(q) \/ Leave(q)
      PROVE  AccessInv'
  <2>1. /\ UNCHANGED <<vars, intent, urls>>
        /\ \A r \in Viewers : viewer'[r] \in {Nobody, viewer[r]}
    BY <1>8 DEF Unknown, Leave, ViewerInv
  <2> QED
    BY <1>1, <2>1 DEF AccessInv
<1>9. ASSUME NEW S \in SUBSET Cameras, SetExposed(S)
      PROVE  AccessInv'
  <2>1. \A q \in Viewers : viewer'[q] # Nobody =>
          viewer[q] # Nobody /\ viewer'[q].since = viewer[q].since
    <3> SUFFICES ASSUME NEW q \in Viewers, viewer'[q] # Nobody
                 PROVE  viewer[q] # Nobody /\ viewer'[q].since = viewer[q].since
      OBVIOUS
    <3>1. viewer'[q] \in {viewer[q], [viewer[q] EXCEPT !.hidden = FALSE]}
      BY <1>9 DEF SetExposed
    <3>2. viewer[q] \in Served
      BY <1>9 DEF SetExposed, ViewerInv
    <3>3. [viewer[q] EXCEPT !.hidden = FALSE].since = viewer[q].since
      BY <3>2 DEF Served
    <3> QED
      BY <3>1, <3>2, <3>3, ServedIsNotNobody
  <2> QED
    BY <1>2, <1>9, <2>1 DEF SetExposed, AccessInv
<1>10. CASE ApiRestart
  BY <1>1, <1>10 DEF ApiRestart, Next, AccessInv
<1>11. CASE Step /\ UNCHANGED apiVars
  BY <1>1, <1>11 DEF apiVars, Next, ViewerInv, AccessInv
<1>12. CASE UNCHANGED allVars
  BY <1>1, <1>12 DEF allVars, apiVars, ViewerInv, AccessInv
<1> QED
  BY <1>3, <1>4, <1>5, <1>6, <1>7, <1>8, <1>9, <1>10, <1>11, <1>12 DEF ApiNext

(* The API adds nothing to the OAuth server's own steps: its behaviours    *)
(* are behaviours of OAuth, so OneGrant holds beneath it as well.          *)
THEOREM ApiRunsOAuth == ApiSpec => Spec
<1>1. ApiInit => Init
  BY DEF ApiInit
<1>2. [ApiNext]_allVars => [Next]_vars
  BY DEF ApiNext, ApiRestart, Authorize, Execute, Answer, Arrive, Admit, Unknown,
         Begin, Leave, SetExposed, Next, allVars
<1> QED
  BY <1>1, <1>2, PTL DEF ApiSpec, Spec

(* The invariants hold in every reachable state.                          *)
LEMMA ApiInvariance == ApiSpec => [](TypeOK /\ AccessInv /\ ViewerInv)
<1>1. ApiInit => ViewerInv
  BY ServedIsNotNobody DEF ApiInit, ViewerInv
<1>2. ApiSpec => []TypeOK
  BY ApiRunsOAuth, OAuthTypes, PTL
<1> QED
  BY <1>1, <1>2, InitAccess, NextAccess, NextViewer, PTL DEF ApiSpec

(* Whoever watches can be traced back to a consent: access tokens end with *)
(* a refresh token, and a view is asked for at most ReadTimeout and        *)
(* PlayTTL after the end of an access token; for any lifetimes, cameras,   *)
(* requests and restarts.                                                  *)
THEOREM AccessIsBounded == ApiSpec => []ViewsFollowAccess
<1>1. AccessInv => ViewsFollowAccess
  BY DEF AccessInv, ViewsFollowAccess
<1> QED
  BY <1>1, ApiInvariance, PTL

(* A URL made before its camera was hidden starts nothing afterwards, for  *)
(* any cameras, requests and edits of the exposure list.                   *)
THEOREM HiddenStaysHidden == ApiSpec => []HiddenStartsNothing
<1>1. ViewerInv => HiddenStartsNothing
  <2> SUFFICES ASSUME ViewerInv, NEW q \in Viewers, viewer[q].at = "watching"
               PROVE  ~viewer[q].hidden
    BY DEF HiddenStartsNothing
  <2> QED
    BY ServedIsNotNobody DEF ViewerInv
<1> QED
  BY <1>1, ApiInvariance, PTL

(* The exposure list, which is all that is left of ApiTypeOK.              *)
ExposedOK == exposed \in SUBSET Cameras

(* An edit replaces it by another list of cameras.                         *)
LEMMA ExposedType == ApiSpec => []ExposedOK
<1>1. ApiInit => ExposedOK
  BY DEF ApiInit, ExposedOK
<1>2. ExposedOK /\ [ApiNext]_allVars => ExposedOK'
  BY DEF ApiNext, apiVars, allVars, ApiRestart, Authorize, Execute, Answer,
         SetExposed, Arrive, Admit, Unknown, Begin, Leave, ExposedOK
<1> QED
  BY <1>1, <1>2, PTL DEF ApiSpec

(* Types, for any cameras, handlers, codes and lifetimes, across restarts: *)
(* what a token request found is a code that was minted, and the server    *)
(* never counts a failure that it has not recorded.                        *)
THEOREM TypeCorrect == ApiSpec => []ApiTypeOK
<1>1. TypeOK /\ AccessInv /\ ViewerInv /\ ExposedOK => ApiTypeOK
  BY DEF ExposedOK, AccessInv, ViewerInv, ApiTypeOK, Served, Reading
<1> QED
  BY <1>1, ApiInvariance, ExposedType, PTL

=============================================================================
