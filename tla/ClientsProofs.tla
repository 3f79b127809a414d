---------------------------- MODULE ClientsProofs ---------------------------
(***************************************************************************)
(* The clients of one session: who controls it (ControlLease), who is      *)
(* present (Presence), and what they read of it (Inspection).              *)
(***************************************************************************)
EXTENDS Presence, Inspection, TLAPS, FiniteSetTheorems

----------------------------------------------------------------------------
(***************************************************************************)
(* What ControlLease promises for any set of clients, any number of humans *)
(* among them and any bound on the request list.                           *)
(*                                                                         *)
(* LeaseInv, the conjunction of the type invariant and of                  *)
(* RequestsAddressHolder, is inductive: that no client has two requests is *)
(* what makes Without remove the whole of a client's requests, and the     *)
(* bound on the list is what makes MakeRoom drop at most one.              *)
(***************************************************************************)

LeaseInv == LeaseTypeOK /\ RequestsAddressHolder

Injective(s) == \A i, j \in DOMAIN s : s[i] = s[j] => i = j

----------------------------------------------------------------------------
(***************************************************************************)
(* The helpers on request lists.                                           *)
(***************************************************************************)

\* Without(s, c) is a list without c; what stays keeps its order and moves
\* towards the front by at most the one place c leaves.
LEMMA WithoutProperties ==
    ASSUME NEW s \in Seq(Clients), NEW c, Injective(s)
    PROVE  /\ Without(s, c) \in Seq(Clients)
           /\ Len(Without(s, c)) <= Len(s)
           /\ Injective(Without(s, c))
           /\ \A i \in DOMAIN Without(s, c) :
                 /\ Without(s, c)[i] # c
                 /\ \E j \in DOMAIN s : s[j] = Without(s, c)[i]
           /\ \A i \in DOMAIN s :
                 \/ s[i] = c
                 \/ \E j \in DOMAIN Without(s, c) : j <= i /\ Without(s, c)[j] = s[i]
           /\ Len(Without(s, c)) = Len(s) => Without(s, c) = s
<1> DEFINE at == {i \in DOMAIN s : s[i] = c}
<1>1. CASE at = {}
  <2>1. Without(s, c) = s
    BY <1>1 DEF Without
  <2> QED
    BY <2>1, <1>1
<1>2. CASE at # {}
  <2> DEFINE k == CHOOSE i \in at : TRUE
             w == [j \in 1 .. Len(s) - 1 |-> IF j < k THEN s[j] ELSE s[j + 1]]
  <2>1. k \in at
    BY <1>2
  <2>2. /\ k \in 1 .. Len(s) /\ s[k] = c
        /\ Len(s) \in Nat /\ Len(s) >= 1
        /\ DOMAIN s = 1 .. Len(s)
    BY <2>1
  <2>3. Without(s, c) = w
    BY <1>2 DEF Without
  <2> HIDE DEF k
  <2>4. /\ w \in Seq(Clients)
        /\ Len(w) = Len(s) - 1
        /\ DOMAIN w = 1 .. Len(s) - 1
    <3>1. \A j \in 1 .. Len(s) - 1 : w[j] \in Clients
      BY <2>2
    <3>2. w \in [1 .. Len(s) - 1 -> Clients]
      BY <3>1
    <3> QED
      BY <3>2, <2>2
  <2>5. \A i, j \in 1 .. Len(s) : s[i] = s[j] => i = j
    BY <2>2 DEF Injective
  <2>6. Injective(w)
    BY <2>2, <2>4, <2>5 DEF Injective
  <2>7. \A i \in DOMAIN w : w[i] # c /\ \E j \in DOMAIN s : s[j] = w[i]
    <3> SUFFICES ASSUME NEW i \in 1 .. Len(s) - 1
                 PROVE  w[i] # c /\ \E j \in DOMAIN s : s[j] = w[i]
      BY <2>4
    <3>1. CASE i < k
      BY <3>1, <2>2, <2>5
    <3>2. CASE ~(i < k)
      <4>1. w[i] = s[i + 1] /\ i + 1 \in 1 .. Len(s) /\ i + 1 # k
        BY <3>2, <2>2
      <4> QED
        BY <4>1, <2>2, <2>5
    <3> QED
      BY <3>1, <3>2
  <2>8. \A i \in DOMAIN s : s[i] = c \/ \E j \in DOMAIN w : j <= i /\ w[j] = s[i]
    <3> SUFFICES ASSUME NEW i \in 1 .. Len(s), s[i] # c
                 PROVE  \E j \in 1 .. Len(s) - 1 : j <= i /\ w[j] = s[i]
      BY <2>2, <2>4
    <3>1. i # k
      BY <2>2
    <3>2. CASE i < k
      <4>1. i \in 1 .. Len(s) - 1 /\ w[i] = s[i]
        BY <3>2, <2>2
      <4> QED
        BY <4>1
    <3>3. CASE i > k
      <4>1. i - 1 \in 1 .. Len(s) - 1 /\ w[i - 1] = s[i] /\ i - 1 <= i
        BY <3>3, <2>2
      <4> QED
        BY <4>1
    <3> QED
      BY <3>1, <3>2, <3>3, <2>2
  <2> HIDE DEF w
  <2>9. Len(w) <= Len(s) /\ Len(w) # Len(s)
    <3> DEFINE n == Len(s)
    <3>1. n \in Nat /\ Len(w) = n - 1
      BY <2>2, <2>4
    <3> HIDE DEF n
    <3>2. Len(w) <= n /\ Len(w) # n
      BY <3>1
    <3> QED
      BY <3>2 DEF n
  <2> QED
    BY <2>3, <2>4, <2>6, <2>7, <2>8, <2>9
<1> QED
  BY <1>1, <1>2

\* MakeRoom(s) leaves room for one more, and drops only the oldest of a full
\* list.
LEMMA MakeRoomProperties ==
    ASSUME NEW s \in Seq(Clients), Len(s) <= MaxRequests, Injective(s)
    PROVE  /\ MakeRoom(s) \in Seq(Clients)
           /\ Len(MakeRoom(s)) < MaxRequests
           /\ Injective(MakeRoom(s))
           /\ \A i \in DOMAIN MakeRoom(s) : \E j \in DOMAIN s : s[j] = MakeRoom(s)[i]
           /\ \A i \in DOMAIN s :
                 \/ i = 1 /\ Len(s) = MaxRequests
                 \/ \E j \in DOMAIN MakeRoom(s) : j <= i /\ MakeRoom(s)[j] = s[i]
<1>0. /\ Len(s) \in Nat /\ DOMAIN s = 1 .. Len(s)
      /\ MaxRequests \in Nat /\ MaxRequests > 0 /\ Len(s) <= MaxRequests
  BY MaxRequestsAssumption
<1>1. CASE Len(s) < MaxRequests
  <2>1. MakeRoom(s) = s
    BY <1>1 DEF MakeRoom
  <2>2. \A i \in DOMAIN s : i <= i
    BY <1>0
  <2> QED
    BY <2>1, <2>2, <1>1
<1>2. CASE Len(s) = MaxRequests
  <2> DEFINE m == SubSeq(s, 2, Len(s))
  <2>1. MakeRoom(s) = m
    BY <1>0, <1>2 DEF MakeRoom
  <2>2. /\ m \in Seq(Clients)
        /\ Len(m) = Len(s) - 1
        /\ DOMAIN m = 1 .. Len(s) - 1
        /\ \A i \in 1 .. Len(s) - 1 : m[i] = s[i + 1]
    BY <1>0, <1>2
  <2> HIDE DEF m
  <2>3. \A i, j \in 1 .. Len(s) : s[i] = s[j] => i = j
    BY <1>0 DEF Injective
  <2>4. Injective(m)
    <3> SUFFICES ASSUME NEW i \in 1 .. Len(s) - 1, NEW j \in 1 .. Len(s) - 1, m[i] = m[j]
                 PROVE  i = j
      BY <2>2 DEF Injective
    <3>1. i + 1 \in 1 .. Len(s) /\ j + 1 \in 1 .. Len(s) /\ s[i + 1] = s[j + 1]
      BY <2>2, <1>0
    <3> QED
      BY <3>1, <2>3
  <2>5. \A i \in DOMAIN m : \E j \in DOMAIN s : s[j] = m[i]
    <3> SUFFICES ASSUME NEW i \in 1 .. Len(s) - 1
                 PROVE  \E j \in 1 .. Len(s) : s[j] = m[i]
      BY <2>2, <1>0
    <3>1. i + 1 \in 1 .. Len(s)
      BY <1>0
    <3> QED
      BY <3>1, <2>2
  <2>6. \A i \in DOMAIN s : i = 1 \/ \E j \in DOMAIN m : j <= i /\ m[j] = s[i]
    <3> SUFFICES ASSUME NEW i \in 1 .. Len(s), i # 1
                 PROVE  \E j \in 1 .. Len(s) - 1 : j <= i /\ m[j] = s[i]
      BY <2>2, <1>0
    <3>1. i - 1 \in 1 .. Len(s) - 1 /\ i - 1 <= i /\ (i - 1) + 1 = i
      BY <1>0
    <3> QED
      BY <3>1, <2>2
  <2> QED
    BY <2>1, <2>2, <2>4, <2>5, <2>6, <1>0, <1>2
<1>3. Len(s) < MaxRequests \/ Len(s) = MaxRequests
  <2> DEFINE n == Len(s)
  <2>1. n \in Nat /\ n <= MaxRequests /\ MaxRequests \in Nat
    BY <1>0
  <2> HIDE DEF n
  <2>2. n < MaxRequests \/ n = MaxRequests
    BY <2>1
  <2> QED
    BY <2>2 DEF n
<1> QED
  BY <1>1, <1>2, <1>3

\* A client's new request behind the others: still bounded, still one each.
LEMMA NewRequest ==
    ASSUME LeaseInv, NEW c \in Clients, c # holder
    PROVE  LET r == Append(MakeRoom(Without(requests, c)), c)
           IN  /\ r \in Seq(Clients)
               /\ Len(r) <= MaxRequests
               /\ Injective(r)
               /\ \A i \in DOMAIN r : r[i] # holder
<1> DEFINE w == Without(requests, c)
           m == MakeRoom(w)
           r == Append(m, c)
<1>1. requests \in Seq(Clients) /\ Injective(requests) /\ Len(requests) <= MaxRequests
      /\ \A i \in DOMAIN requests : requests[i] # holder
  BY DEF LeaseInv, LeaseTypeOK, RequestsAddressHolder, Injective
<1>2. /\ w \in Seq(Clients) /\ Len(w) <= MaxRequests /\ Injective(w)
      /\ \A i \in DOMAIN w : w[i] # c /\ w[i] # holder
  <2> HIDE DEF w
  <2>1. /\ w \in Seq(Clients) /\ Len(w) <= Len(requests) /\ Injective(w)
        /\ \A i \in DOMAIN w : w[i] # c /\ \E j \in DOMAIN requests : requests[j] = w[i]
    BY <1>1, WithoutProperties DEF w
  <2> QED
    BY <2>1, <1>1, MaxRequestsAssumption
<1> HIDE DEF w
<1>3. /\ m \in Seq(Clients) /\ Len(m) < MaxRequests /\ Injective(m)
      /\ \A i \in DOMAIN m : m[i] # c /\ m[i] # holder
  <2> HIDE DEF m
  <2>1. /\ m \in Seq(Clients) /\ Len(m) < MaxRequests /\ Injective(m)
        /\ \A i \in DOMAIN m : \E j \in DOMAIN w : w[j] = m[i]
    BY <1>2, MakeRoomProperties DEF m
  <2> QED
    BY <2>1, <1>2
<1> HIDE DEF m
<1>4. /\ r \in Seq(Clients) /\ Len(r) = Len(m) + 1
      /\ DOMAIN r = 1 .. Len(m) + 1 /\ DOMAIN m = 1 .. Len(m)
      /\ r[Len(m) + 1] = c
      /\ \A i \in 1 .. Len(m) : r[i] = m[i]
  BY <1>3
<1> HIDE DEF r
<1>5. Len(r) <= MaxRequests
  BY <1>3, <1>4, MaxRequestsAssumption
<1>6. Injective(r)
  BY <1>3, <1>4 DEF Injective
<1>7. \A i \in DOMAIN r : r[i] # holder
  BY <1>3, <1>4
<1> QED
  BY <1>4, <1>5, <1>6, <1>7 DEF r, m, w

----------------------------------------------------------------------------
(***************************************************************************)
(* The inductive invariant.                                                *)
(***************************************************************************)

\* Wherever the lease moves to, an emptied request list is in order.
LEMMA SetHolderInv ==
    ASSUME LeaseInv, NEW h \in Clients \cup {Nobody}, NEW actor \in Clients \cup {Nobody},
           NEW action \in Actions, NEW force \in BOOLEAN,
           SetHolder(h, actor, action, force), policy' \in Policies, live' \in BOOLEAN
    PROVE  LeaseInv'
BY MaxRequestsAssumption
   DEF LeaseInv, LeaseTypeOK, RequestsAddressHolder, SetHolder

\* The lease's state is well formed, and every pending request is addressed to
\* a holder other than its client, whatever operations came before.
THEOREM LeaseInvariant == LeaseSpec => []LeaseInv
<1> USE ClientsAssumption, MaxRequestsAssumption
<1>1. LeaseInit => LeaseInv
  BY DEF LeaseInit, LeaseInv, LeaseTypeOK, RequestsAddressHolder, Policies, Actions
<1>2. LeaseInv /\ [LeaseNext]_leaseVars => LeaseInv'
  <2> SUFFICES ASSUME LeaseInv, [LeaseNext]_leaseVars
               PROVE  LeaseInv'
    OBVIOUS
  <2>0. policy \in Policies /\ live \in BOOLEAN /\ holder \in Clients \cup {Nobody}
    BY DEF LeaseInv, LeaseTypeOK
  <2>1. ASSUME NEW c \in Clients, NEW force \in BOOLEAN, TakeLease(c, force)
        PROVE  LeaseInv'
    BY <2>0, <2>1, SetHolderInv DEF TakeLease, Actions, Allows
  <2>2. ASSUME NEW c \in Clients, NEW force \in BOOLEAN, NEW to \in Clients,
               GrantLease(c, to, force)
        PROVE  LeaseInv'
    BY <2>0, <2>2, SetHolderInv DEF GrantLease, Actions
  <2>3. ASSUME NEW c \in Clients, NEW force \in BOOLEAN, NEW p \in Policies,
               SetLeasePolicy(c, p, force)
        PROVE  LeaseInv'
    BY <2>3 DEF SetLeasePolicy, LeaseInv, LeaseTypeOK, RequestsAddressHolder, Actions
  <2>4. ASSUME NEW c \in Clients, ReleaseLease(c)
        PROVE  LeaseInv'
    BY <2>0, <2>4, SetHolderInv DEF ReleaseLease, Actions
  <2>5. ASSUME NEW c \in Clients, Acquire(c)
        PROVE  LeaseInv'
    <3>1. CASE holder = c
      BY <2>5, <3>1 DEF Acquire, LeaseInv, LeaseTypeOK, RequestsAddressHolder
    <3>2. CASE holder # c
      BY <2>0, <2>5, <3>2, SetHolderInv DEF Acquire, Actions
    <3> QED
      BY <3>1, <3>2
  <2>6. ASSUME NEW c \in Clients, RequestLease(c)
        PROVE  LeaseInv'
    <3>1. c # holder
      BY <2>6 DEF RequestLease
    <3>2. /\ requests' \in Seq(Clients)
          /\ Len(requests') <= MaxRequests
          /\ Injective(requests')
          /\ \A i \in DOMAIN requests' : requests'[i] # holder
      BY <2>6, <3>1, NewRequest DEF RequestLease
    <3> QED
      BY <2>6, <3>2 DEF RequestLease, LeaseInv, LeaseTypeOK, RequestsAddressHolder,
                        Injective, Actions
  <2>7. ASSUME NEW c \in Clients, LeaveLease(c)
        PROVE  LeaseInv'
    <3>1. CASE holder = c
      BY <2>0, <2>7, <3>1, SetHolderInv DEF LeaveLease, Actions
    <3>2. CASE holder # c
      <4>1. requests \in Seq(Clients) /\ Injective(requests) /\ Len(requests) <= MaxRequests
        BY DEF LeaseInv, LeaseTypeOK, RequestsAddressHolder, Injective
      <4>2. requests' = Without(requests, c) /\ holder' = holder /\ policy' = policy
            /\ live' = live /\ moved' = [by |-> c, action |-> "leave", force |-> FALSE]
        BY <2>7, <3>2 DEF LeaveLease
      <4>3. /\ requests' \in Seq(Clients) /\ Len(requests') <= Len(requests)
            /\ Injective(requests')
            /\ \A i \in DOMAIN requests' : \E j \in DOMAIN requests : requests[j] = requests'[i]
        BY <4>1, <4>2, WithoutProperties
      <4>4. Len(requests') <= MaxRequests
        BY <4>1, <4>3
      <4>5. holder = Nobody => requests' = <<>>
        BY <4>3 DEF LeaseInv, RequestsAddressHolder
      <4> QED
        BY <4>2, <4>3, <4>4, <4>5
           DEF LeaseInv, LeaseTypeOK, RequestsAddressHolder, Injective, Actions
    <3> QED
      BY <3>1, <3>2
  <2>8. CASE EndLease
    BY <2>8 DEF EndLease, LeaseInv, LeaseTypeOK, RequestsAddressHolder, Actions
  <2>9. CASE UNCHANGED leaseVars
    BY <2>9 DEF leaseVars, LeaseInv, LeaseTypeOK, RequestsAddressHolder
  <2> QED
    BY <2>1, <2>2, <2>3, <2>4, <2>5, <2>6, <2>7, <2>8, <2>9 DEF LeaseNext
<1> QED
  BY <1>1, <1>2, PTL DEF LeaseSpec

\* The run's two invariants hold for any clients and any bound: every request
\* list is in order, for any number of clients in any order of operations.
THEOREM RequestsInOrder == LeaseSpec => [](LeaseTypeOK /\ RequestsAddressHolder)
BY LeaseInvariant, PTL DEF LeaseInv

----------------------------------------------------------------------------
(***************************************************************************)
(* What a step may never do.                                               *)
(***************************************************************************)

\* Without --force no step of another client takes the lease from its holder
\* or changes its policy, unless the policy itself gives it to that client.
THEOREM ControlKept == LeaseSpec => HolderKeepsControl
<1> DEFINE Keeps ==
        (holder # Nobody /\ moved'.by # holder /\ ~moved'.force)
        => /\ policy' = policy
           /\ \/ holder' = holder
              \/ /\ moved'.action \in {"take", "auto"}
                 /\ \/ policy = "free"
                    \/ /\ policy = "humanPriority"
                       /\ holder \notin Humans
                       /\ holder' \in Humans
<1>1. [LeaseNext]_leaseVars => [Keeps]_leaseVars
  <2> SUFFICES ASSUME LeaseNext, holder # Nobody, moved'.by # holder, ~moved'.force
               PROVE  Keeps
    OBVIOUS
  <2>1. ASSUME NEW c \in Clients, NEW force \in BOOLEAN, TakeLease(c, force)
        PROVE  Keeps
    <3>1. moved'.force = ~Allows("take", c, FALSE) /\ moved'.by = c
          /\ moved'.action = (IF ~Allows("take", c, FALSE) THEN "force" ELSE "take")
          /\ holder' = c /\ policy' = policy
      BY <2>1 DEF TakeLease, SetHolder
    <3>2. PolicyAllows(c)
      BY <3>1 DEF Allows
    <3> QED
      BY <3>1, <3>2 DEF PolicyAllows
  <2>2. ASSUME NEW c \in Clients, NEW force \in BOOLEAN, NEW to \in Clients,
               GrantLease(c, to, force)
        PROVE  Keeps
    BY <2>2 DEF GrantLease, SetHolder, Allows
  <2>3. ASSUME NEW c \in Clients, NEW force \in BOOLEAN, NEW p \in Policies,
               SetLeasePolicy(c, p, force)
        PROVE  Keeps
    BY <2>3 DEF SetLeasePolicy, Allows
  <2>4. ASSUME NEW c \in Clients, ReleaseLease(c)
        PROVE  Keeps
    BY <2>4 DEF ReleaseLease, SetHolder
  <2>5. ASSUME NEW c \in Clients, Acquire(c)
        PROVE  Keeps
    BY <2>5 DEF Acquire, SetHolder, Allows, PolicyAllows
  <2>6. ASSUME NEW c \in Clients, RequestLease(c)
        PROVE  Keeps
    BY <2>6 DEF RequestLease
  <2>7. ASSUME NEW c \in Clients, LeaveLease(c)
        PROVE  Keeps
    BY <2>7 DEF LeaveLease, SetHolder
  <2>8. CASE EndLease
    BY <2>8 DEF EndLease
  <2> QED
    BY <2>1, <2>2, <2>3, <2>4, <2>5, <2>6, <2>7, <2>8 DEF LeaseNext
<1> QED
  BY <1>1, PTL DEF LeaseSpec, HolderKeepsControl

\* Where c's new request leaves the ones recorded before it: each other client
\* keeps its request and is nobody's later than before, unless it was the
\* oldest of a full list.
LEMMA EarlierRequestsStay ==
    ASSUME LeaseInv, NEW c \in Clients, NEW i \in DOMAIN requests
    PROVE  LET r == Append(MakeRoom(Without(requests, c)), c)
           IN  \/ requests[i] = c /\ \E j \in DOMAIN r : r[j] = c
               \/ \E j \in DOMAIN r : j <= i /\ r[j] = requests[i]
               \/ i = 1 /\ Len(requests) = MaxRequests /\ \A k \in DOMAIN requests : requests[k] # c
<1> DEFINE w == Without(requests, c)
           m == MakeRoom(w)
           r == Append(m, c)
<1>1. /\ requests \in Seq(Clients) /\ Injective(requests)
      /\ Len(requests) \in Nat /\ DOMAIN requests = 1 .. Len(requests)
      /\ Len(requests) <= MaxRequests /\ MaxRequests \in Nat
  BY MaxRequestsAssumption DEF LeaseInv, LeaseTypeOK, RequestsAddressHolder, Injective
<1>2. /\ w \in Seq(Clients) /\ Len(w) <= Len(requests) /\ Injective(w)
      /\ \A k \in DOMAIN requests :
            requests[k] = c \/ \E j \in DOMAIN w : j <= k /\ w[j] = requests[k]
      /\ Len(w) = Len(requests) => w = requests
      /\ \A j \in DOMAIN w : w[j] # c
  <2> HIDE DEF w
  <2> QED
    BY <1>1, WithoutProperties DEF w
<1> HIDE DEF w
<1>3. Len(w) \in Nat /\ DOMAIN w = 1 .. Len(w) /\ Len(w) <= MaxRequests
  BY <1>1, <1>2
<1>4. /\ m \in Seq(Clients)
      /\ \A k \in DOMAIN w :
            \/ k = 1 /\ Len(w) = MaxRequests
            \/ \E j \in DOMAIN m : j <= k /\ m[j] = w[k]
  <2> HIDE DEF m
  <2> QED
    BY <1>2, <1>3, MakeRoomProperties DEF m
<1> HIDE DEF m
<1>5. /\ DOMAIN m = 1 .. Len(m) /\ Len(m) \in Nat
      /\ DOMAIN r = 1 .. Len(m) + 1 /\ r[Len(m) + 1] = c
      /\ \A k \in 1 .. Len(m) : r[k] = m[k]
  BY <1>4
<1> HIDE DEF r
<1>6. CASE requests[i] = c
  BY <1>5, <1>6 DEF r, m, w
<1>7. CASE requests[i] # c
  <2>1. PICK k \in DOMAIN w : k <= i /\ w[k] = requests[i]
    BY <1>2, <1>7
  <2>2. CASE k = 1 /\ Len(w) = MaxRequests
    \* w is full, so c had no request and w is the whole list.
    <3> DEFINE n == Len(requests)
    <3>1. n \in Nat /\ n <= MaxRequests /\ MaxRequests <= n /\ MaxRequests \in Nat
      BY <1>1, <1>2, <2>2
    <3> HIDE DEF n
    <3>2. n = MaxRequests
      BY <3>1
    <3>3. w = requests
      BY <1>2, <2>2, <3>2 DEF n
    <3>4. requests[1] = requests[i] /\ 1 \in DOMAIN requests
      BY <2>1, <2>2, <3>3
    <3>5. i = 1
      BY <1>1, <3>4 DEF Injective
    <3>6. \A k2 \in DOMAIN requests : requests[k2] # c
      BY <1>2, <3>3
    <3> QED
      BY <3>2, <3>5, <3>6 DEF n
  <2>3. CASE \E j \in DOMAIN m : j <= k /\ m[j] = w[k]
    <3>1. PICK j \in DOMAIN m : j <= k /\ m[j] = w[k]
      BY <2>3
    <3>2. j \in DOMAIN r /\ r[j] = requests[i] /\ j <= i
      BY <1>1, <1>3, <1>5, <2>1, <3>1
    <3> QED
      BY <3>2 DEF r, m, w
  <2> QED
    BY <1>4, <2>2, <2>3
<1> QED
  BY <1>6, <1>7

\* A recorded request is shown until the lease changes hands, its client
\* leaves, or a full list makes room for another client.
THEOREM RequestsShown == LeaseSpec => RequestsKept
<1> DEFINE Kept ==
        holder' = holder
        => \A i \in DOMAIN requests :
              \/ \E j \in DOMAIN requests' :
                    /\ requests'[j] = requests[i]
                    /\ j <= i \/ requests[i] = moved'.by
              \/ moved'.action = "leave" /\ moved'.by = requests[i]
              \/ /\ moved'.action = "request"
                 /\ i = 1 /\ Len(requests) = MaxRequests
                 /\ \A k \in DOMAIN requests : requests[k] # moved'.by
<1>1. LeaseInv /\ [LeaseNext]_leaseVars => [Kept]_leaseVars
  <2> SUFFICES ASSUME LeaseInv, LeaseNext, holder' = holder, NEW i \in DOMAIN requests
               PROVE  Kept!2!(i)
    OBVIOUS
  <2>0. DOMAIN requests = 1 .. Len(requests) /\ Len(requests) \in Nat
        /\ requests \in Seq(Clients)
    BY DEF LeaseInv, LeaseTypeOK
  <2>1. CASE UNCHANGED requests
    <3>1. i \in DOMAIN requests' /\ requests'[i] = requests[i] /\ i <= i
      BY <2>0, <2>1
    <3> QED
      BY <3>1
  <2>2. ASSUME NEW c \in Clients, RequestLease(c)
        PROVE  Kept!2!(i)
    <3>1. requests' = Append(MakeRoom(Without(requests, c)), c)
          /\ moved'.by = c /\ moved'.action = "request"
      BY <2>2 DEF RequestLease
    <3> QED
      BY <3>1, EarlierRequestsStay
  <2>3. ASSUME NEW c \in Clients, LeaveLease(c), holder # c
        PROVE  Kept!2!(i)
    <3>0. /\ requests' = Without(requests, c)
          /\ moved' = [by |-> c, action |-> "leave", force |-> FALSE]
      BY <2>3 DEF LeaveLease
    <3>1. requests' = Without(requests, c) /\ moved'.by = c /\ moved'.action = "leave"
      BY <3>0
    <3>2. Injective(requests)
      BY DEF LeaseInv, RequestsAddressHolder, Injective
    <3> QED
      BY <2>0, <3>1, <3>2, WithoutProperties
  <2>4. ASSUME NEW h, NEW a, NEW act, NEW f, h # holder, SetHolder(h, a, act, f)
        PROVE  FALSE
    BY <2>4 DEF SetHolder
  <2>5. holder # Nobody
    BY DEF LeaseInv, RequestsAddressHolder
  <2>6. ASSUME NEW c \in Clients, NEW force \in BOOLEAN, TakeLease(c, force)
        PROVE  FALSE
    BY <2>6, <2>4 DEF TakeLease
  <2>7. ASSUME NEW c \in Clients, NEW force \in BOOLEAN, NEW to \in Clients,
               GrantLease(c, to, force)
        PROVE  FALSE
    BY <2>7, <2>4 DEF GrantLease
  <2>8. ASSUME NEW c \in Clients, ReleaseLease(c)
        PROVE  FALSE
    BY <2>8, <2>4, <2>5 DEF ReleaseLease
  <2>9. ASSUME NEW c \in Clients, Acquire(c)
        PROVE  UNCHANGED requests
    BY <2>9, <2>4 DEF Acquire
  <2>10. ASSUME NEW c \in Clients, LeaveLease(c)
         PROVE  holder # c
    BY <2>10, <2>4, <2>5 DEF LeaveLease
  <2> QED
    BY <2>1, <2>2, <2>3, <2>6, <2>7, <2>8, <2>9, <2>10
       DEF LeaseNext, SetLeasePolicy, EndLease
<1> QED
  BY <1>1, LeaseInvariant, PTL DEF LeaseSpec, RequestsKept

----------------------------------------------------------------------------
(***************************************************************************)
(* Presence implements ControlLease, keeps the modes editors set in force, *)
(* and cleans up after a leaving exactly, for any clients, connections and *)
(* requests (internal/session/presence.go, exceptions.go).                 *)
(*                                                                         *)
(* The argument: an entry counts its client's open connections, and its    *)
(* generation is newer than that of any cleanup captured before the newest *)
(* connection.  So while a cleanup's leaving holds no connection is open,  *)
(* and nothing of what it removes can come back; and no two cleanups are   *)
(* captured with one generation.  A reset keeps syncMu from its guard to   *)
(* its store, so that no mode is set in between.                           *)
(***************************************************************************)

OpenPcs == {"open", "asked", "taken", "note"}
Asking  == {"asked", "taken", "resetting", "retaken"}
Leaving == {"timer", "leave", "check", "reset", "resetting", "retaken", "last"}
ConnPcs == {"unused", "gone"} \cup OpenPcs \cup Leaving
Entries == [conns : Nat, gen : Nat, excSet : BOOLEAN]

PresenceTypeOK ==
    /\ pc \in [Threads -> ConnPcs \cup {"idle"}]
    /\ owner \in [Conns -> Clients \cup {Nobody}]
    /\ pres \in [Clients -> Entries]
    /\ gen \in [Conns -> Nat]
    /\ asks \in [Threads -> [mode : Modes, force : BOOLEAN]]
    /\ ebps \in [Clients -> BOOLEAN]
    /\ excModes \in [Clients -> Modes]
    /\ syncMu \in Threads \cup {Nobody}
    /\ plan \in [Threads -> [Clients -> Modes]]
    /\ up \in BOOLEAN /\ fails \in Nat /\ asked \in Nat
    /\ chosen \in [Clients -> [by : Threads \cup {Nobody}, mode : Modes]]

\* Connections are numbered as they come, and are their owner's.
Numbered ==
    /\ \A k \in Conns : pc[k] \in ConnPcs /\ (pc[k] = "unused" <=> k > connGen)
    /\ \A k \in Conns : pc[k] # "unused" => owner[k] \in Clients
    /\ \A c \in Clients : pc[c] \in {"idle", "asked", "taken"}

OpenOf(c) == {k \in Conns : owner[k] = c /\ pc[k] \in OpenPcs}

\* An entry counts the open connections of its client.
Counted == \A c \in Clients : pres[c].conns = Cardinality(OpenOf(c))

\* k is being cleaned up after, and its client has not come back since.
Holds(k) == pc[k] \in Leaving /\ pres[owner[k]].gen = gen[k]

\* The generations of cleanups: none is captured twice, and while it is the
\* entry's, nobody is connected.
Generations ==
    /\ \A c \in Clients : pres[c].gen <= connGen
    /\ \A c \in Clients : pres[c].conns > 0 => pres[c].gen > 0
    /\ \A k \in Conns : pc[k] \in Leaving => gen[k] > 0 /\ gen[k] <= connGen
    /\ \A k \in Conns : Holds(k) => pres[owner[k]].conns = 0
    /\ \A k, l \in Conns :
          pc[k] \in Leaving /\ pc[l] \in Leaving /\ owner[k] = owner[l] /\ gen[k] = gen[l] => k = l

\* syncMu is held from the guard to the store, and the plan is made from the
\* modes there are.
Syncs ==
    /\ \A t \in Threads : pc[t] \in Asking <=> syncMu = t
    /\ \A t \in Threads : pc[t] \in Asking =>
          plan[t] = WithMode(Who(t), asks[t].mode, asks[t].force)
    /\ \A t \in Threads : pc[t] \in {"resetting", "retaken"} =>
          asks[t].mode = "none" /\ ~asks[t].force
    /\ \A t \in Threads : pc[t] \in {"taken", "retaken"} => filters = FiltersFor(plan[t])
    /\ (fails = 0 /\ \A t \in Threads : pc[t] \notin {"taken", "retaken"})
          => filters = FiltersFor(excModes)

\* Who set a mode last is a connection of that client; while it is open, and
\* nobody else set it, the mode is what it set; and a reset under way is not
\* of such a mode.
Chosen ==
    /\ \A c \in Clients : chosen[c].by \in Conns =>
          pc[chosen[c].by] # "unused" /\ owner[chosen[c].by] = c
    /\ \A c \in Clients : chosen[c].by \in Conns /\ pc[chosen[c].by] \in OpenPcs =>
          excModes[c] = chosen[c].mode
    /\ \A k \in Conns : pc[k] \in {"resetting", "retaken"} =>
          LET by == chosen[owner[k]].by IN ~(by \in Conns /\ pc[by] \in OpenPcs)

ModesInv == PresenceTypeOK /\ Numbered /\ Counted /\ Generations /\ Syncs /\ Chosen

\* A cleanup that holds has removed the breakpoints by its second step.
BreakpointsGone ==
    \A k \in Conns : live /\ Holds(k) /\ pc[k] \notin {"timer", "leave"} => ~ebps[owner[k]]

\* One connection of a client at a time sets its mode, and notes what it set.
Notes ==
    /\ \A k, l \in Conns :
          /\ owner[k] = owner[l]
          /\ pc[k] \in {"asked", "taken", "note"} /\ pc[l] \in {"asked", "taken", "note"}
          => k = l
    /\ \A k \in Conns : pc[k] = "note" =>
          LET ch == chosen[owner[k]]
          IN  ch.by \notin Conns \/ (ch.by = k /\ ch.mode = asks[k].mode)

\* A mode an editor set is noted in its client's entry, as long as a cleanup
\* may go by it; a cleanup that is past its reset has reset it.
Noted ==
    /\ \A c \in Clients :
          /\ live /\ fails = 0
          /\ up \/ \E k \in Conns : owner[k] = c /\ Holds(k)
          /\ chosen[c].by \in Conns /\ pc[chosen[c].by] # "note"
          /\ ~pres[c].excSet
          => excModes[c] = "none"
    /\ \A k \in Conns :
          live /\ fails = 0 /\ Holds(k) /\ pc[k] = "last" /\ chosen[owner[k]].by \in Conns
          => excModes[owner[k]] = "none"

CleanupInv == ModesInv /\ BreakpointsGone /\ Notes /\ Noted /\ LeaseInv
----------------------------------------------------------------------------
(***************************************************************************)
(* Lemmas on the parts of the invariant.                                   *)
(***************************************************************************)

\* A step that opens and closes no connection.
Steady ==
    /\ owner' = owner
    /\ \A k \in Conns : /\ pc'[k] = "unused" <=> pc[k] = "unused"
                        /\ pc'[k] \in OpenPcs <=> pc[k] \in OpenPcs

\* It leaves the counts as they are.
LEMMA SteadyCounts ==
    ASSUME Steady
    PROVE  connGen' = connGen /\ \A c \in Clients : OpenOf(c)' = OpenOf(c)
<1>1. {k \in Conns : pc'[k] # "unused"} = {k \in Conns : pc[k] # "unused"}
  BY DEF Steady
<1>2. \A c \in Clients : OpenOf(c)' = OpenOf(c)
  BY DEF Steady, OpenOf
<1> QED
  BY <1>1, <1>2 DEF connGen

\* There are finitely many connections.
LEMMA ConnsFinite ==
    /\ \A S \in SUBSET Conns : IsFiniteSet(S) /\ Cardinality(S) \in Nat
    /\ connGen \in Nat
<1>1. IsFiniteSet(Conns)
  BY PresenceAssumption, FS_Interval DEF Conns
<1>2. ASSUME NEW S \in SUBSET Conns PROVE IsFiniteSet(S) /\ Cardinality(S) \in Nat
  BY <1>1, FS_Subset, FS_CardinalityType
<1>3. {k \in Conns : pc[k] # "unused"} \in SUBSET Conns
  OBVIOUS
<1> QED
  BY <1>2, <1>3 DEF connGen

\* An entry that counts no connection: none of the client's is open.
LEMMA NoneOpen ==
    ASSUME Counted, NEW k \in Conns, owner[k] \in Clients, pc[k] \in OpenPcs
    PROVE  pres[owner[k]].conns \in Nat /\ pres[owner[k]].conns > 0
<1>1. OpenOf(owner[k]) \in SUBSET Conns /\ k \in OpenOf(owner[k])
  BY DEF OpenOf
<1>2. Cardinality(OpenOf(owner[k])) \in Nat /\ Cardinality(OpenOf(owner[k])) # 0
  BY <1>1, ConnsFinite, FS_EmptySet
<1> QED
  BY <1>2 DEF Counted

\* A step of a thread that is not asking, and does not begin to.
LEMMA SyncsKept ==
    ASSUME Syncs, UNCHANGED <<excModes, filters, syncMu, plan, fails>>,
           \A t \in Threads : pc[t] \in Asking \/ pc'[t] \in Asking =>
                pc'[t] = pc[t] /\ asks'[t] = asks[t] /\ Who(t)' = Who(t)
    PROVE  Syncs'
<1>1. \A t \in Threads : pc'[t] \in Asking <=> syncMu' = t
  BY DEF Syncs
<1>2. \A t \in Threads : pc'[t] \in Asking =>
        plan'[t] = WithMode(Who(t), asks[t].mode, asks[t].force)'
  BY DEF Syncs, WithMode
<1>3. \A t \in Threads : pc'[t] \in {"resetting", "retaken"} =>
        asks'[t].mode = "none" /\ ~asks'[t].force
  BY DEF Syncs, Asking
<1>4. \A t \in Threads : pc'[t] \in {"taken", "retaken"} => filters' = FiltersFor(plan[t])'
  BY DEF Syncs, Asking, FiltersFor
<1>5. (fails' = 0 /\ \A t \in Threads : pc'[t] \notin {"taken", "retaken"})
        => filters' = FiltersFor(excModes)'
  BY DEF Syncs, Asking, FiltersFor
<1> QED
  BY <1>1, <1>2, <1>3, <1>4, <1>5 DEF Syncs

\* A step that sets no mode, opens no old connection and begins no reset.
LEMMA ChosenKept ==
    ASSUME Chosen, Numbered, UNCHANGED <<excModes, chosen>>,
           \A k \in Conns : pc[k] # "unused" =>
                /\ pc'[k] # "unused" /\ owner'[k] = owner[k]
                /\ pc'[k] \in OpenPcs => pc[k] \in OpenPcs,
           \A k \in Conns : pc'[k] \in {"resetting", "retaken"} =>
                pc[k] \in {"resetting", "retaken"}
    PROVE  Chosen'
<1>1. \A c \in Clients : chosen'[c].by \in Conns =>
        pc'[chosen'[c].by] # "unused" /\ owner'[chosen'[c].by] = c
  BY DEF Chosen
<1>2. \A c \in Clients : chosen'[c].by \in Conns /\ pc'[chosen'[c].by] \in OpenPcs =>
        excModes'[c] = chosen'[c].mode
  BY DEF Chosen
<1>3. ASSUME NEW k \in Conns, pc'[k] \in {"resetting", "retaken"},
             chosen'[owner'[k]].by \in Conns, pc'[chosen'[owner'[k]].by] \in OpenPcs
      PROVE  FALSE
  <2>1. pc[k] \in {"resetting", "retaken"} /\ owner'[k] = owner[k] /\ owner[k] \in Clients
    BY <1>3 DEF Numbered
  <2>2. chosen[owner[k]].by \in Conns /\ pc[chosen[owner[k]].by] # "unused"
    BY <1>3, <2>1 DEF Chosen
  <2> QED
    BY <1>3, <2>1, <2>2 DEF Chosen
<1> QED
  BY <1>1, <1>2, <1>3 DEF Chosen

\* A cleanup's step that takes no mode and no lease, and the timer's.
LEMMA QuietKeeps ==
    ASSUME ModesInv, NEW k \in Conns,
           UNCHANGED <<owner, pres, gen, asks, excModes, filters, syncMu, plan, up, fails, asked, chosen>>,
           ebps' \in [Clients -> BOOLEAN],
           pc[k] \in Leaving \ Asking,
           NEW to \in {"gone"} \cup (Leaving \ Asking), pc' = [pc EXCEPT ![k] = to]
    PROVE  ModesInv'
<1> USE PresenceAssumption, ClientsAssumption DEF Threads, Conns
<1>t. /\ PresenceTypeOK /\ Numbered /\ Counted /\ Generations /\ Syncs /\ Chosen
      /\ pc \in [Threads -> ConnPcs \cup {"idle"}]
  BY DEF ModesInv, PresenceTypeOK
<1>1. /\ pc'[k] = to /\ \A t \in Threads : t # k => pc'[t] = pc[t]
      /\ pc' \in [Threads -> ConnPcs \cup {"idle"}]
  BY <1>t DEF ConnPcs
<1>2. Steady
  BY <1>1 DEF Steady, Leaving, OpenPcs
<1>3. connGen' = connGen /\ \A c \in Clients : OpenOf(c)' = OpenOf(c)
  BY <1>2, SteadyCounts
<1>4. PresenceTypeOK'
  BY <1>t, <1>1 DEF PresenceTypeOK
<1>5. Numbered'
  BY <1>t, <1>1, <1>2, <1>3 DEF Numbered, Steady, ConnPcs
<1>6. Counted'
  BY <1>t, <1>3 DEF Counted
<1>7. Generations'
  <2>1. \A l \in Conns : pc'[l] \in Leaving => pc[l] \in Leaving
    BY <1>1
  <2> QED
    BY <1>t, <1>3, <2>1 DEF Generations, Holds
<1>8. Syncs'
  <2>1. pc'[k] \notin Asking
    BY <1>1 DEF Asking
  <2> QED
    BY <1>t, <1>1, <2>1, SyncsKept DEF Who
<1>9. Chosen'
  BY <1>t, <1>1, <1>2, ChosenKept DEF Steady, Asking
<1> QED
  BY <1>4, <1>5, <1>6, <1>7, <1>8, <1>9 DEF ModesInv

\* The timer, and the first steps of a cleanup.
LEMMA LeavingStepsKeep ==
    ASSUME ModesInv, NEW k \in Conns,
           GraceEnds(k) \/ LeaveBreakpoints(k) \/ LeaveCheckMode(k) \/ ResetRefused(k)
    PROVE  ModesInv'
<1> DEFINE Quiet == UNCHANGED <<owner, pres, gen, asks, excModes, filters, syncMu, plan, up, fails, asked, chosen>>
<1>1. Quiet
  BY DEF GraceEnds, LeaveBreakpoints, LeaveCheckMode, ResetRefused
<1>2. ebps' \in [Clients -> BOOLEAN]
  BY DEF ModesInv, PresenceTypeOK, GraceEnds, LeaveBreakpoints, LeaveCheckMode, ResetRefused
<1>3. pc[k] \in Leaving \ Asking
  BY DEF GraceEnds, LeaveBreakpoints, LeaveCheckMode, ResetRefused, Leaving, Asking
<1>4. \E to \in {"gone"} \cup (Leaving \ Asking) : pc' = [pc EXCEPT ![k] = to]
  BY DEF GraceEnds, LeaveBreakpoints, LeaveCheckMode, ResetRefused, Leaving, Asking
<1> QED
  BY <1>1, <1>2, <1>3, <1>4, QuietKeeps

\* Noting a mode leaves the counts and generations.
LEMMA ExceptionsSetKeeps ==
    ASSUME ModesInv, NEW k \in Conns, ExceptionsSet(k)
    PROVE  ModesInv'
<1> USE PresenceAssumption, ClientsAssumption DEF ModesInv, PresenceTypeOK, Threads, Conns
<1>1. Steady
  BY DEF ExceptionsSet, Numbered, Steady, OpenPcs, ConnPcs, Leaving, NoAsk, Modes
<1>2. connGen' = connGen /\ \A c \in Clients : OpenOf(c)' = OpenOf(c)
  BY <1>1, SteadyCounts
<1>a. owner[k] \in Clients /\ pres[owner[k]] \in Entries
  BY DEF ExceptionsSet, Numbered
<1>b. pres' = [pres EXCEPT ![owner[k]] = [@ EXCEPT !.excSet = asks[k].mode # "none"]]
  BY DEF ExceptionsSet
<1>c. pres' \in [Clients -> Entries]
  BY <1>a, <1>b DEF Entries
<1>3. PresenceTypeOK'
  BY <1>c DEF ExceptionsSet, OpenPcs, ConnPcs, Leaving, NoAsk, Modes
<1>4. Numbered'
  BY <1>1, <1>2 DEF ExceptionsSet, OpenPcs, ConnPcs, Leaving, Entries, NoAsk, Modes, Numbered, Steady
<1>5. Counted'
  BY <1>1, <1>2 DEF ExceptionsSet, OpenPcs, ConnPcs, Leaving, Entries, NoAsk, Modes, Counted, Steady
<1>6. Generations'
  BY <1>1, <1>2 DEF ExceptionsSet, OpenPcs, ConnPcs, Leaving, Entries, NoAsk, Modes, Generations, Holds, Steady
<1>7. Syncs'
  BY SyncsKept DEF ExceptionsSet, OpenPcs, ConnPcs, Leaving, Entries, NoAsk, Modes, Asking, Who, Numbered, Steady
<1>8. Chosen'
  BY <1>1, <1>2 DEF ExceptionsSet, OpenPcs, ConnPcs, Leaving, Entries, NoAsk, Modes, Chosen, Steady
<1> QED
  BY <1>3, <1>4, <1>5, <1>6, <1>7, <1>8 DEF ModesInv

\* A cleanup's end: the entry goes only while nobody is connected.
LEMMA LeaveLastKeeps ==
    ASSUME ModesInv, NEW k \in Conns, LeaveLast(k)
    PROVE  ModesInv'
<1> USE PresenceAssumption, ClientsAssumption DEF Threads, Conns
<1>t. /\ PresenceTypeOK /\ Numbered /\ Counted /\ Generations /\ Syncs /\ Chosen
      /\ pres \in [Clients -> Entries] /\ pc \in [Threads -> ConnPcs \cup {"idle"}]
      /\ owner \in [Conns -> Clients \cup {Nobody}] /\ gen \in [Conns -> Nat]
  BY DEF ModesInv, PresenceTypeOK
<1>1. Steady
  BY <1>t DEF LeaveLast, Numbered, Steady, OpenPcs, ConnPcs, Leaving
<1>2. connGen' = connGen /\ \A c \in Clients : OpenOf(c)' = OpenOf(c)
  BY <1>t, <1>1, SteadyCounts
<1>3. owner[k] \in Clients /\ pres[owner[k]] \in Entries /\ NoEntry \in Entries
  BY <1>t DEF LeaveLast, Numbered, NoEntry, Entries
<1>4. \/ pres' = pres
      \/ pres' = [pres EXCEPT ![owner[k]] = NoEntry] /\ pres[owner[k]].conns = 0
  BY <1>t DEF LeaveLast, LeaveAll, Left
<1>5. /\ pres' \in [Clients -> Entries]
      /\ \A c \in Clients : pres'[c] = pres[c] \/ (pres'[c] = NoEntry /\ pres[c].conns = 0)
  BY <1>t, <1>3, <1>4
<1>6. \A c \in Clients : pres'[c].conns = pres[c].conns /\ pres'[c].gen \in {0, pres[c].gen}
  BY <1>t, <1>5 DEF NoEntry
<1>7. PresenceTypeOK'
  BY <1>t, <1>5 DEF PresenceTypeOK, LeaveLast, OpenPcs, ConnPcs, Leaving
<1>8. Numbered'
  BY <1>t, <1>1, <1>2 DEF LeaveLast, Numbered, Steady, OpenPcs, ConnPcs, Leaving
<1>9. Counted'
  BY <1>t, <1>2, <1>6 DEF Counted
<1>10. Generations'
  <2>1. \A l \in Conns : pc'[l] \in Leaving => l # k /\ pc[l] \in Leaving /\ gen'[l] = gen[l] /\ owner[l] \in Clients
    BY <1>t DEF LeaveLast, Leaving, Numbered
  <2>2. \A c \in Clients : pres'[c].gen <= connGen'
    BY <1>t, <1>2, <1>6, ConnsFinite DEF Generations
  <2>3. \A c \in Clients : pres'[c].conns > 0 => pres'[c].gen > 0
    BY <1>t, <1>5 DEF Generations, NoEntry
  <2>4. ASSUME NEW l \in Conns, Holds(l)' PROVE pres'[owner'[l]].conns = 0
    <3>1. /\ pc[l] \in Leaving /\ gen'[l] = gen[l] /\ gen[l] > 0
          /\ owner'[l] = owner[l] /\ owner[l] \in Clients
      BY <1>t, <1>1, <2>1, <2>4 DEF Holds, Steady, Generations
    <3>2. pres'[owner[l]].gen = gen[l]
      BY <2>4, <3>1 DEF Holds
    <3>3. Holds(l)
      BY <1>t, <1>6, <3>1, <3>2 DEF Holds
    <3> QED
      BY <1>t, <1>6, <3>1, <3>3 DEF Generations
  <2> QED
    BY <1>t, <1>1, <1>2, <2>1, <2>2, <2>3, <2>4 DEF Generations, Steady
<1>11. Syncs'
  BY <1>t, SyncsKept DEF LeaveLast, Asking, Who
<1>12. Chosen'
  BY <1>t, <1>1, <1>2 DEF LeaveLast, OpenPcs, Leaving, Chosen, Steady
<1> QED
  BY <1>t, <1>7, <1>8, <1>9, <1>10, <1>11, <1>12 DEF ModesInv

\* A new connection is counted, and its generation is newer than any.
LEMMA ConnectKeeps ==
    ASSUME ModesInv, NEW c \in Editors, Connect(c)
    PROVE  ModesInv'
<1> USE PresenceAssumption, ClientsAssumption DEF Threads, Conns
<1>t. /\ PresenceTypeOK /\ Numbered /\ Counted /\ Generations /\ Syncs /\ Chosen
      /\ pres \in [Clients -> Entries] /\ pc \in [Threads -> ConnPcs \cup {"idle"}]
      /\ owner \in [Conns -> Clients \cup {Nobody}] /\ gen \in [Conns -> Nat]
  BY DEF ModesInv, PresenceTypeOK
<1> DEFINE k == connGen + 1
<1>1. c \in Clients /\ k \in Conns /\ k \in Nat /\ pc[k] = "unused" /\ connGen \in Nat
  BY <1>t, ConnsFinite DEF Connect, Numbered
<1>2. /\ pc' = [pc EXCEPT ![k] = "open"]
      /\ owner' = [owner EXCEPT ![k] = c]
      /\ pres' = [pres EXCEPT ![c] = [conns |-> pres[c].conns + 1, gen |-> k, excSet |-> pres[c].excSet]]
      /\ UNCHANGED <<gen, asks, ebps, excModes, filters, syncMu, plan, up, fails, asked, chosen>>
  BY <1>1 DEF Connect, k
<1>3. connGen' = connGen + 1
  <2>1. {l \in Conns : pc'[l] # "unused"} = {l \in Conns : pc[l] # "unused"} \cup {k}
    BY <1>t, <1>1, <1>2
  <2>2. IsFiniteSet({l \in Conns : pc[l] # "unused"}) /\ k \notin {l \in Conns : pc[l] # "unused"}
    BY <1>t, <1>1, ConnsFinite
  <2> HIDE DEF k
  <2>3. Cardinality({l \in Conns : pc[l] # "unused"} \cup {k}) = Cardinality({l \in Conns : pc[l] # "unused"}) + 1
    BY <1>t, <2>2, FS_AddElement
  <2> QED
    BY <1>t, <2>1, <2>3 DEF connGen
<1>4. /\ OpenOf(c)' = OpenOf(c) \cup {k}
      /\ \A d \in Clients : d # c => OpenOf(d)' = OpenOf(d)
  BY <1>t, <1>1, <1>2 DEF OpenOf, OpenPcs
<1>5. Cardinality(OpenOf(c)') = Cardinality(OpenOf(c)) + 1
  <2>1. IsFiniteSet(OpenOf(c)) /\ k \notin OpenOf(c)
    BY <1>t, <1>1, ConnsFinite DEF OpenOf, OpenPcs
  <2> HIDE DEF k
  <2> QED
    BY <1>t, <1>4, <2>1, FS_AddElement
<1> HIDE DEF k
<1>6. PresenceTypeOK'
  BY <1>t, <1>1, <1>2 DEF PresenceTypeOK, ConnPcs, OpenPcs, Entries
<1>7. Numbered'
  BY <1>t, <1>1, <1>2, <1>3 DEF k, Numbered, ConnPcs, OpenPcs
<1>8. Counted'
  BY <1>t, <1>1, <1>2, <1>4, <1>5 DEF Counted, Entries
<1>9. Generations'
  <2>1. \A l \in Conns : pc'[l] \in Leaving =>
            l # k /\ pc[l] \in Leaving /\ gen'[l] = gen[l] /\ owner'[l] = owner[l] /\ owner[l] \in Clients
            /\ gen[l] \in Nat /\ gen[l] > 0 /\ gen[l] <= connGen
    BY <1>t, <1>1, <1>2 DEF Leaving, Numbered, Generations
  <2>2. \A d \in Clients : d # c => pres'[d] = pres[d]
    BY <1>t, <1>2
  <2>3. pres'[c].gen = connGen + 1 /\ pres'[c].conns = pres[c].conns + 1
    BY <1>t, <1>1, <1>2 DEF k
  <2>4. \A d \in Clients : pres[d].gen \in Nat /\ pres[d].gen <= connGen
    BY <1>t DEF Generations, Entries
  <2>5. \A d \in Clients : pres'[d].gen <= connGen'
    BY <1>t, <1>1, <1>3, <2>2, <2>3, <2>4
  <2>6. \A d \in Clients : pres'[d].conns > 0 => pres'[d].gen > 0
    BY <1>t, <1>1, <2>2, <2>3, <2>4 DEF Generations
  <2>7. \A l \in Conns : Holds(l)' => pres'[owner'[l]].conns = 0
    BY <1>t, <1>1, <2>1, <2>2, <2>3 DEF Holds, Generations
  <2>8. \A l \in Conns : pc'[l] \in Leaving => gen'[l] > 0 /\ gen'[l] <= connGen'
    BY <1>t, <1>1, <1>3, <2>1
  <2> QED
    BY <1>t, <2>1, <2>5, <2>6, <2>7, <2>8 DEF Generations
<1>10. Syncs'
  BY <1>t, <1>1, <1>2, SyncsKept DEF Asking, Who
<1>11. Chosen'
  BY <1>t, <1>1, <1>2, ChosenKept DEF OpenPcs
<1> QED
  BY <1>t, <1>6, <1>7, <1>8, <1>9, <1>10, <1>11 DEF ModesInv

\* A leaving connection is counted off; the last one's cleanup is captured
\* with the entry's generation, which no other cleanup has.
LEMMA LeaveKeeps ==
    ASSUME ModesInv, NEW k \in Conns, NEW restart \in BOOLEAN, Leave(k, restart)
    PROVE  ModesInv'
<1> USE PresenceAssumption, ClientsAssumption DEF Threads, Conns
<1>t. /\ PresenceTypeOK /\ Numbered /\ Counted /\ Generations /\ Syncs /\ Chosen
      /\ pres \in [Clients -> Entries] /\ pc \in [Threads -> ConnPcs \cup {"idle"}]
      /\ owner \in [Conns -> Clients \cup {Nobody}] /\ gen \in [Conns -> Nat]
  BY DEF ModesInv, PresenceTypeOK
<1>c. PICK c \in Clients : c = owner[k]
  BY <1>t DEF Leave, Numbered
<1> DEFINE e == [conns |-> pres[c].conns - 1, gen |-> pres[c].gen, excSet |-> pres[c].excSet]
<1>1. c \in Clients /\ pc[k] = "open" /\ pres[c].conns \in Nat /\ pres[c].conns > 0
  BY <1>t, <1>c, NoneOpen DEF Leave, Numbered, OpenPcs
<1>2. e \in Entries /\ NoEntry \in Entries /\ e = [pres[c] EXCEPT !.conns = @ - 1]
  BY <1>t, <1>1 DEF Entries, NoEntry
<1>3. /\ \/ /\ pres' = [pres EXCEPT ![c] = e] /\ e.conns > 0
            /\ pc' = [pc EXCEPT ![k] = "gone"] /\ gen' = gen
         \/ /\ pres' = [pres EXCEPT ![c] = NoEntry] /\ e.conns = 0
            /\ pc' = [pc EXCEPT ![k] = "gone"] /\ gen' = gen
         \/ /\ pres' = [pres EXCEPT ![c] = e] /\ e.conns = 0
            /\ pc' \in {[pc EXCEPT ![k] = "timer"], [pc EXCEPT ![k] = "leave"]}
            /\ gen' = [gen EXCEPT ![k] = e.gen]
      /\ UNCHANGED <<owner, asks, ebps, excModes, filters, syncMu, plan, up, fails, asked, chosen>>
  BY <1>t, <1>c, <1>2 DEF Leave
<1> HIDE DEF e
<1>4. /\ OpenOf(c)' = OpenOf(c) \ {k}
      /\ \A d \in Clients : d # c => OpenOf(d)' = OpenOf(d)
  BY <1>c, <1>t, <1>1, <1>3 DEF OpenOf, OpenPcs
<1>5. Cardinality(OpenOf(c)') = Cardinality(OpenOf(c)) - 1
  <2>1. IsFiniteSet(OpenOf(c)) /\ k \in OpenOf(c)
    BY <1>c, <1>t, <1>1, ConnsFinite DEF OpenOf, OpenPcs
  <2> QED
    BY <1>t, <1>4, <2>1, FS_RemoveElement
<1>6. connGen' = connGen
  <2>1. {l \in Conns : pc'[l] # "unused"} = {l \in Conns : pc[l] # "unused"}
    BY <1>t, <1>1, <1>3
  <2> QED
    BY <1>t, <2>1 DEF connGen
<1>7. /\ pres' \in [Clients -> Entries]
      /\ \A d \in Clients : d # c => pres'[d] = pres[d]
      /\ \/ pres'[c] = e
         \/ pres'[c] = NoEntry /\ e.conns = 0
  <2>1. \/ pres' = [pres EXCEPT ![c] = e]
        \/ pres' = [pres EXCEPT ![c] = NoEntry] /\ e.conns = 0
    BY <1>3
  <2>2. CASE pres' = [pres EXCEPT ![c] = e]
    BY <1>t, <1>1, <1>2, <2>2
  <2>3. CASE pres' = [pres EXCEPT ![c] = NoEntry] /\ e.conns = 0
    BY <1>t, <1>1, <1>2, <2>3
  <2> QED
    BY <2>1, <2>2, <2>3
<1>8. /\ pres'[c].conns = pres[c].conns - 1
      /\ pres'[c].gen = pres[c].gen \/ (pres'[c].gen = 0 /\ pres'[c].conns = 0)
  BY <1>1, <1>7 DEF e, NoEntry
<1>9. /\ pc'[k] \in {"gone", "timer", "leave"}
      /\ \A t \in Threads : t # k => pc'[t] = pc[t]
      /\ pc' \in [Threads -> ConnPcs \cup {"idle"}]
  BY <1>t, <1>3 DEF ConnPcs, Leaving
<1>10. /\ \A l \in Conns : l # k => gen'[l] = gen[l]
       /\ pc'[k] \in Leaving => gen'[k] = pres[c].gen /\ pres'[c].gen = pres[c].gen /\ pres'[c].conns = 0
       /\ gen' \in [Conns -> Nat]
  BY <1>t, <1>1, <1>2, <1>3 DEF e, Leaving, Entries
<1>11. PresenceTypeOK'
  BY <1>t, <1>3, <1>7, <1>9, <1>10 DEF PresenceTypeOK
<1>12. Numbered'
  BY <1>t, <1>1, <1>3, <1>6, <1>9 DEF Numbered, ConnPcs, Leaving
<1>13. Counted'
  <2>1. ASSUME NEW d \in Clients PROVE pres'[d].conns = Cardinality(OpenOf(d)')
    <3>1. pres[d].conns = Cardinality(OpenOf(d))
      BY <1>t DEF Counted
    <3>2. CASE d = c
      BY <1>5, <1>8, <3>1, <3>2
    <3>3. CASE d # c
      BY <1>4, <1>7, <3>1, <3>3
    <3> QED
      BY <3>2, <3>3
  <2> QED
    BY <2>1 DEF Counted
<1>14. Generations'
  <2>1. \A l \in Conns : l # k /\ pc'[l] \in Leaving =>
            pc[l] \in Leaving /\ gen'[l] = gen[l] /\ owner[l] \in Clients
            /\ (owner[l] = c => gen[l] # pres[c].gen)
    <3>1. \A l \in Conns : l # k /\ pc'[l] \in Leaving => pc[l] \in Leaving /\ gen'[l] = gen[l] /\ owner[l] \in Clients
      BY <1>t, <1>9, <1>10 DEF Leaving, Numbered
    <3>2. ASSUME NEW l \in Conns, pc[l] \in Leaving, owner[l] = c PROVE gen[l] # pres[c].gen
      BY <1>t, <1>1, <3>2 DEF Generations, Holds
    <3> QED
      BY <3>1, <3>2
  <2>2. pres[c].gen > 0 /\ pres[c].gen <= connGen
    BY <1>t, <1>1 DEF Generations
  <2>3. \A d \in Clients : pres'[d].gen <= connGen'
    <3>1. connGen \in Nat
      BY ConnsFinite
    <3>2. pres'[c].gen <= connGen
      BY <1>8, <2>2, <3>1
    <3>3. ASSUME NEW d \in Clients, d # c PROVE pres'[d].gen <= connGen
      BY <1>t, <1>7, <3>3 DEF Generations
    <3> QED
      BY <1>6, <3>2, <3>3
  <2>4. \A d \in Clients : pres'[d].conns > 0 => pres'[d].gen > 0
    BY <1>t, <1>7, <1>8, <2>2 DEF Generations
  <2>5. \A l \in Conns : pc'[l] \in Leaving => gen'[l] > 0 /\ gen'[l] <= connGen'
    BY <1>t, <1>6, <1>10, <2>1, <2>2 DEF Generations
  <2>6. ASSUME NEW l \in Conns, Holds(l)' PROVE pres'[owner'[l]].conns = 0
    <3>1. CASE l = k
      BY <1>c, <1>3, <1>10, <2>6, <3>1 DEF Holds
    <3>2. CASE l # k
      <4>1. /\ owner'[l] = owner[l] /\ gen'[l] = gen[l] /\ pc[l] \in Leaving
            /\ owner[l] \in Clients /\ gen[l] > 0 /\ pres'[owner[l]].gen = gen[l]
            /\ (owner[l] = c => gen[l] # pres[c].gen)
        BY <1>t, <1>3, <2>1, <2>6, <3>2 DEF Holds, Generations
      <4>2. CASE owner[l] = c
        BY <4>1, <4>2, <1>8
      <4>3. CASE owner[l] # c
        BY <1>t, <4>1, <4>3, <1>7 DEF Holds, Generations
      <4> QED
        BY <4>2, <4>3
    <3> QED
      BY <3>1, <3>2
  <2>7. ASSUME NEW l \in Conns, NEW m \in Conns, pc'[l] \in Leaving, pc'[m] \in Leaving,
               owner'[l] = owner'[m], gen'[l] = gen'[m]
        PROVE  l = m
    <3>1. owner' = owner
      BY <1>3
    <3>2. CASE l # k /\ m # k
      BY <1>t, <2>1, <2>7, <3>1, <3>2 DEF Generations
    <3>3. CASE l = k \/ m = k
      BY <1>c, <1>10, <2>1, <2>7, <3>1, <3>3
    <3> QED
      BY <3>2, <3>3
  <2> QED
    BY <2>3, <2>4, <2>5, <2>6, <2>7 DEF Generations
<1>15. Syncs'
  BY <1>t, <1>1, <1>3, <1>9, SyncsKept DEF Asking, Who
<1>16. Chosen'
  BY <1>t, <1>1, <1>3, <1>9, ChosenKept DEF OpenPcs
<1> QED
  BY <1>11, <1>12, <1>13, <1>14, <1>15, <1>16 DEF ModesInv

\* A request for a mode begins: syncMu is taken, and for a reset the leaving
\* still holds, so that no connection of the client is open.
LEMMA ModeBeginKeeps ==
    ASSUME ModesInv, NEW t \in Threads, NEW mode \in Modes, NEW force \in BOOLEAN,
           ModeBegin(t, mode, force)
    PROVE  ModesInv'
<1> USE PresenceAssumption, ClientsAssumption DEF Threads, Conns
<1>t. /\ PresenceTypeOK /\ Numbered /\ Counted /\ Generations /\ Syncs /\ Chosen
      /\ pres \in [Clients -> Entries] /\ pc \in [Threads -> ConnPcs \cup {"idle"}]
      /\ owner \in [Conns -> Clients \cup {Nobody}] /\ gen \in [Conns -> Nat]
      /\ asks \in [Threads -> [mode : Modes, force : BOOLEAN]]
      /\ plan \in [Threads -> [Clients -> Modes]] /\ excModes \in [Clients -> Modes]
  BY DEF ModesInv, PresenceTypeOK
<1> DEFINE modes == WithMode(Who(t), mode, force)
<1>1. /\ \/ pc[t] \in {"open", "idle"} /\ pc' = [pc EXCEPT ![t] = "asked"]
         \/ pc[t] = "reset" /\ Left(t) /\ mode = "none" /\ ~force /\ pc' = [pc EXCEPT ![t] = "resetting"]
      /\ syncMu = Nobody /\ syncMu' = t
      /\ asks' = [asks EXCEPT ![t] = [mode |-> mode, force |-> force]]
      /\ plan' = [plan EXCEPT ![t] = modes]
      /\ UNCHANGED <<owner, pres, gen, ebps, excModes, filters, up, fails, chosen>>
  BY <1>t DEF ModeBegin, MayAsk, Guard, HoldSync
<1>2. modes \in [Clients -> Modes]
  BY <1>t DEF WithMode, Modes
<1>3. /\ \A u \in Threads : u # t => pc'[u] = pc[u] /\ asks'[u] = asks[u] /\ plan'[u] = plan[u]
      /\ asks'[t] = [mode |-> mode, force |-> force] /\ plan'[t] = modes
      /\ \/ pc[t] \in {"open", "idle"} /\ pc'[t] = "asked"
         \/ pc[t] = "reset" /\ Left(t) /\ mode = "none" /\ ~force /\ pc'[t] = "resetting"
      /\ pc' \in [Threads -> ConnPcs \cup {"idle"}]
      /\ asks' \in [Threads -> [mode : Modes, force : BOOLEAN]]
      /\ plan' \in [Threads -> [Clients -> Modes]]
  BY <1>t, <1>1, <1>2 DEF ConnPcs, OpenPcs, Leaving
<1>4. asked' \in Nat
  BY <1>t DEF ModeBegin, PresenceTypeOK
<1> HIDE DEF modes
<1>5. PresenceTypeOK'
  BY <1>t, <1>1, <1>3, <1>4 DEF PresenceTypeOK
<1>6. Steady
  BY <1>t, <1>1, <1>3 DEF Steady, OpenPcs, Numbered, ConnPcs, Leaving
<1>7. connGen' = connGen /\ \A c \in Clients : OpenOf(c)' = OpenOf(c)
  BY <1>6, SteadyCounts
<1>8. Numbered'
  BY <1>t, <1>1, <1>3, <1>6, <1>7 DEF Numbered, Steady, OpenPcs, ConnPcs, Leaving
<1>9. Counted'
  BY <1>t, <1>1, <1>7 DEF Counted
<1>10. \A k \in Conns : pc'[k] \in Leaving <=> pc[k] \in Leaving
  BY <1>t, <1>3 DEF Leaving, Numbered
<1>11. Generations'
  BY <1>t, <1>1, <1>7, <1>10 DEF Generations, Holds
<1>12. \A u \in Threads : pc[u] \notin Asking
  <2>1. Nobody \notin Threads
    OBVIOUS
  <2> QED
    BY <1>t, <1>1, <2>1 DEF Syncs
<1>13. Syncs'
  <2>1. \A u \in Threads : pc'[u] \in Asking <=> u = t
    BY <1>3, <1>12 DEF Asking
  <2>2. WithMode(Who(t), mode, force) = WithMode(Who(t), asks[t].mode, asks[t].force)'
    BY <1>1, <1>3 DEF WithMode, Who
  <2>3. pc'[t] \notin {"taken", "retaken"} /\ \A u \in Threads : pc[u] \notin {"taken", "retaken"}
    BY <1>3, <1>12 DEF Asking
  <2>4. fails = 0 => filters = FiltersFor(excModes)
    BY <1>t, <2>3 DEF Syncs
  <2>5. fails' = 0 => filters' = FiltersFor(excModes)'
    BY <1>1, <2>4 DEF FiltersFor
  <2>6. \A u \in Threads : pc'[u] \in {"resetting", "retaken"} => u = t /\ asks'[t].mode = "none" /\ ~asks'[t].force
    BY <1>3, <2>1 DEF Asking
  <2>7. \A u \in Threads : pc'[u] \notin {"taken", "retaken"}
    BY <1>3, <2>3
  <2>8. \A u \in Threads : pc'[u] \in Asking <=> syncMu' = u
    BY <1>1, <2>1
  <2>9. \A u \in Threads : pc'[u] \in Asking => plan'[u] = WithMode(Who(u), asks[u].mode, asks[u].force)'
    BY <1>3, <2>1, <2>2 DEF modes
  <2> QED
    BY <2>5, <2>6, <2>7, <2>8, <2>9 DEF Syncs
<1>14. Chosen'
  <2>1. CASE pc'[t] = "asked"
    BY <1>t, <1>1, <1>3, <1>6, <2>1, ChosenKept DEF Steady
  <2>2. CASE pc'[t] = "resetting"
    <3>1. t \in Conns /\ Left(t) /\ owner[t] \in Clients /\ pres[owner[t]].conns = 0
      BY <1>t, <1>3, <2>2 DEF Numbered, Left
    <3>2. \A k \in Conns : owner[k] = owner[t] => pc[k] \notin OpenPcs
      BY <1>t, <3>1, NoneOpen
    <3>3. \A c \in Clients : chosen'[c].by \in Conns =>
            pc'[chosen'[c].by] # "unused" /\ owner'[chosen'[c].by] = c
      BY <1>t, <1>1, <1>6 DEF Chosen, Steady
    <3>4. \A c \in Clients : chosen'[c].by \in Conns /\ pc'[chosen'[c].by] \in OpenPcs =>
            excModes'[c] = chosen'[c].mode
      BY <1>t, <1>1, <1>6 DEF Chosen, Steady
    <3>5. \A k \in Conns : pc'[k] \in {"resetting", "retaken"} => k = t
      BY <1>3, <1>12 DEF Asking
    <3>6. ~(chosen'[owner'[t]].by \in Conns /\ pc'[chosen'[owner'[t]].by] \in OpenPcs)
      BY <1>t, <1>1, <1>6, <3>1, <3>2 DEF Chosen, Steady
    <3> QED
      BY <3>3, <3>4, <3>5, <3>6 DEF Chosen
  <2> QED
    BY <1>3, <2>1, <2>2
<1> QED
  BY <1>5, <1>8, <1>9, <1>11, <1>13, <1>14 DEF ModesInv

\* The adapter takes the filters planned.
LEMMA AdapterTakesKeeps ==
    ASSUME ModesInv, NEW t \in Threads, AdapterTakes(t)
    PROVE  ModesInv'
<1> USE PresenceAssumption, ClientsAssumption DEF Threads, Conns
<1>t. /\ PresenceTypeOK /\ Numbered /\ Counted /\ Generations /\ Syncs /\ Chosen
      /\ pres \in [Clients -> Entries] /\ pc \in [Threads -> ConnPcs \cup {"idle"}]
  BY DEF ModesInv, PresenceTypeOK
<1>1. /\ \A u \in Threads : u # t => pc'[u] = pc[u]
      /\ \/ pc[t] = "asked" /\ pc'[t] = "taken"
         \/ pc[t] = "resetting" /\ pc'[t] = "retaken"
      /\ pc' \in [Threads -> ConnPcs \cup {"idle"}]
  BY <1>t DEF AdapterTakes, ConnPcs, OpenPcs, Leaving
<1>2. /\ filters' = FiltersFor(plan[t])
      /\ UNCHANGED <<owner, pres, gen, asks, ebps, excModes, syncMu, plan, up, fails, asked, chosen>>
  BY DEF AdapterTakes
<1>3. PresenceTypeOK'
  BY <1>t, <1>1, <1>2 DEF PresenceTypeOK
<1>4. Steady
  BY <1>t, <1>1, <1>2 DEF Steady, OpenPcs, Numbered, ConnPcs
<1>5. connGen' = connGen /\ \A c \in Clients : OpenOf(c)' = OpenOf(c)
  BY <1>4, SteadyCounts
<1>6. Numbered'
  BY <1>t, <1>1, <1>2, <1>4, <1>5 DEF Numbered, Steady, OpenPcs, ConnPcs, Leaving
<1>7. Counted'
  BY <1>t, <1>2, <1>5 DEF Counted
<1>8. \A k \in Conns : pc'[k] \in Leaving <=> pc[k] \in Leaving
  BY <1>t, <1>1 DEF Leaving, Numbered
<1>9. Generations'
  BY <1>t, <1>2, <1>5, <1>8 DEF Generations, Holds
<1>10. \A u \in Threads : pc[u] \in Asking <=> u = t
  BY <1>t, <1>1 DEF Syncs, Asking
<1>11. Syncs'
  <2>1. \A u \in Threads : pc'[u] \in Asking <=> u = t
    BY <1>1, <1>10 DEF Asking
  <2>2. \A u \in Threads : pc'[u] \in Asking <=> syncMu' = u
    BY <1>t, <1>2, <1>10, <2>1 DEF Syncs
  <2>3. plan'[t] = WithMode(Who(t), asks[t].mode, asks[t].force)'
    <3>1. plan[t] = WithMode(Who(t), asks[t].mode, asks[t].force)
      BY <1>t, <1>10 DEF Syncs
    <3>2. Who(t)' = Who(t)
      BY <1>2 DEF Who
    <3> QED
      BY <1>2, <3>1, <3>2 DEF WithMode
  <2>4. \A u \in Threads : pc'[u] \in Asking => plan'[u] = WithMode(Who(u), asks[u].mode, asks[u].force)'
    BY <2>1, <2>3
  <2>5. \A u \in Threads : pc'[u] \in {"resetting", "retaken"} => asks'[u].mode = "none" /\ ~asks'[u].force
    BY <1>t, <1>1, <1>2, <1>10 DEF Syncs, Asking
  <2>6. filters' = FiltersFor(plan[t])'
    BY <1>2 DEF FiltersFor
  <2>7. \A u \in Threads : pc'[u] \in {"taken", "retaken"} => filters' = FiltersFor(plan[u])'
    BY <2>1, <2>6 DEF Asking
  <2>8. pc'[t] \in {"taken", "retaken"}
    BY <1>1
  <2> QED
    BY <2>2, <2>4, <2>5, <2>7, <2>8 DEF Syncs
<1>12. Chosen'
  BY <1>t, <1>1, <1>2, <1>4, ChosenKept DEF Steady
<1> QED
  BY <1>3, <1>6, <1>7, <1>9, <1>11, <1>12 DEF ModesInv

\* A request fails: its plan is dropped, the modes stay.
LEMMA ModeFailsKeeps ==
    ASSUME ModesInv, NEW t \in Threads, ModeFails(t)
    PROVE  ModesInv'
<1> USE PresenceAssumption, ClientsAssumption DEF Threads, Conns
<1>t. /\ PresenceTypeOK /\ Numbered /\ Counted /\ Generations /\ Syncs /\ Chosen
      /\ pres \in [Clients -> Entries] /\ pc \in [Threads -> ConnPcs \cup {"idle"}]
      /\ asks \in [Threads -> [mode : Modes, force : BOOLEAN]]
      /\ plan \in [Threads -> [Clients -> Modes]] /\ fails \in Nat
  BY DEF ModesInv, PresenceTypeOK
<1>1. /\ \A u \in Threads : u # t => pc'[u] = pc[u]
      /\ pc[t] \in Asking /\ pc' = [pc EXCEPT ![t] = Back(t)]
      /\ fails' = fails + 1 /\ syncMu' = Nobody
      /\ asks' = [asks EXCEPT ![t] = NoAsk] /\ plan' = [plan EXCEPT ![t] = NoModes]
      /\ UNCHANGED <<owner, pres, gen, ebps, excModes, filters, up, asked, chosen>>
  BY <1>t DEF ModeFails, Asking
<1>2. /\ t \in Conns => \/ pc[t] \in {"asked", "taken"} /\ pc'[t] = "open"
                        \/ pc[t] \in {"resetting", "retaken"} /\ pc'[t] = "last"
      /\ t \in Clients => pc[t] \in {"asked", "taken"} /\ pc'[t] = "idle"
  BY <1>t, <1>1 DEF Back, Asking, Numbered
<1>3. /\ pc' \in [Threads -> ConnPcs \cup {"idle"}]
      /\ asks' \in [Threads -> [mode : Modes, force : BOOLEAN]]
      /\ plan' \in [Threads -> [Clients -> Modes]]
  BY <1>t, <1>1 DEF NoAsk, NoModes, Modes, Back, ConnPcs, OpenPcs, Leaving
<1>4. PresenceTypeOK'
  BY <1>t, <1>1, <1>3 DEF PresenceTypeOK
<1>5. Steady
  BY <1>t, <1>1, <1>2 DEF Steady, OpenPcs, Numbered, ConnPcs
<1>6. connGen' = connGen /\ \A c \in Clients : OpenOf(c)' = OpenOf(c)
  BY <1>5, SteadyCounts
<1>7. Numbered'
  <2>1. \A k \in Conns : pc'[k] \in ConnPcs
    BY <1>t, <1>1, <1>2 DEF Numbered, ConnPcs, OpenPcs, Leaving
  <2>2. \A c \in Clients : pc'[c] \in {"idle", "asked", "taken"}
    BY <1>t, <1>1, <1>2 DEF Numbered
  <2>3. \A k \in Conns : pc'[k] = "unused" <=> k > connGen'
    BY <1>t, <1>5, <1>6 DEF Numbered, Steady
  <2>4. \A k \in Conns : pc'[k] # "unused" => owner'[k] \in Clients
    BY <1>t, <1>1, <1>5 DEF Numbered, Steady
  <2> QED
    BY <2>1, <2>2, <2>3, <2>4 DEF Numbered
<1>8. Counted'
  BY <1>t, <1>1, <1>6 DEF Counted
<1>9. \A k \in Conns : pc'[k] \in Leaving <=> pc[k] \in Leaving
  BY <1>t, <1>1, <1>2 DEF Leaving, Numbered
<1>10. Generations'
  BY <1>t, <1>1, <1>6, <1>9 DEF Generations, Holds
<1>11. \A u \in Threads : pc'[u] \notin Asking
  BY <1>t, <1>1, <1>2 DEF Syncs, Asking
<1>12. Syncs'
  <2>1. \A u \in Threads : syncMu' # u
    BY <1>1
  <2>2. \A u \in Threads : pc'[u] \notin {"taken", "retaken", "resetting"}
    BY <1>11 DEF Asking
  <2>3. fails' # 0
    BY <1>t, <1>1
  <2> QED
    BY <1>11, <2>1, <2>2, <2>3 DEF Syncs
<1>13. Chosen'
  BY <1>t, <1>1, <1>5, <1>11, ChosenKept DEF Steady, Asking
<1> QED
  BY <1>4, <1>7, <1>8, <1>10, <1>12, <1>13 DEF ModesInv

\* The modes planned are stored: those of others stay, or are cleared, and
\* with them who set them.
LEMMA ModeDoneKeeps ==
    ASSUME ModesInv, NEW t \in Threads, ModeDone(t)
    PROVE  ModesInv'
<1> USE PresenceAssumption, ClientsAssumption DEF Threads, Conns
<1>t. /\ PresenceTypeOK /\ Numbered /\ Counted /\ Generations /\ Syncs /\ Chosen
      /\ pres \in [Clients -> Entries] /\ pc \in [Threads -> ConnPcs \cup {"idle"}]
      /\ owner \in [Conns -> Clients \cup {Nobody}]
      /\ asks \in [Threads -> [mode : Modes, force : BOOLEAN]]
      /\ plan \in [Threads -> [Clients -> Modes]] /\ fails \in Nat
      /\ chosen \in [Clients -> [by : Threads \cup {Nobody}, mode : Modes]]
      /\ excModes \in [Clients -> Modes]
  BY DEF ModesInv, PresenceTypeOK
<1>1. /\ \A u \in Threads : u # t => pc'[u] = pc[u] /\ asks'[u] = asks[u] /\ plan'[u] = plan[u]
      /\ pc[t] \in {"taken", "retaken"} /\ pc[t] \in Asking
      /\ excModes' = plan[t] /\ syncMu' = Nobody
      /\ UNCHANGED <<owner, pres, gen, ebps, filters, up, fails, asked>>
  BY <1>t DEF ModeDone, Asking
<1>2. /\ t \in Conns => \/ pc[t] = "taken" /\ pc'[t] = "note"
                        \/ pc[t] = "retaken" /\ pc'[t] = "last"
      /\ t \in Clients => pc[t] = "taken" /\ pc'[t] = "idle"
  <2>1. t \in Conns \/ (t \in Clients /\ t \notin Conns /\ pc[t] # "retaken")
    <3>1. \A c \in Clients : pc[c] # "retaken"
      BY <1>t DEF Numbered
    <3> QED
      BY <3>1
  <2>2. t \in Conns => t \notin Clients
    OBVIOUS
  <2>3. pc'[t] = IF pc[t] = "taken" /\ t \in Conns THEN "note" ELSE Back(t)
    BY <1>t DEF ModeDone
  <2> QED
    BY <1>1, <2>1, <2>2, <2>3 DEF Back
<1>3. /\ pc' \in [Threads -> ConnPcs \cup {"idle"}]
      /\ asks' \in [Threads -> [mode : Modes, force : BOOLEAN]]
      /\ plan' \in [Threads -> [Clients -> Modes]]
  BY <1>t DEF ModeDone, NoAsk, NoModes, Modes, Back, ConnPcs, OpenPcs, Leaving
<1>4. Who(t) \in Clients
  BY <1>t, <1>1 DEF Who, Numbered
<1>5. \A d \in Clients :
        /\ chosen'[d] = IF pc[t] = "retaken" THEN chosen[d]
                        ELSE IF d = Who(t) THEN [by |-> t, mode |-> asks[t].mode]
                        ELSE IF asks[t].force THEN Nothing ELSE chosen[d]
        /\ excModes'[d] = IF d = Who(t) THEN asks[t].mode
                          ELSE IF asks[t].force THEN "none" ELSE excModes[d]
  <2>1. plan[t] = WithMode(Who(t), asks[t].mode, asks[t].force)
    BY <1>t, <1>1 DEF Syncs
  <2> QED
    BY <1>1, <2>1 DEF ModeDone, WithMode
<1>6. chosen' \in [Clients -> [by : Threads \cup {Nobody}, mode : Modes]]
  <2>1. \A d \in Clients : chosen'[d] \in [by : Threads \cup {Nobody}, mode : Modes]
    <3>1. /\ Nothing \in [by : Threads \cup {Nobody}, mode : Modes]
          /\ [by |-> t, mode |-> asks[t].mode] \in [by : Threads \cup {Nobody}, mode : Modes]
      BY <1>t DEF Nothing, Modes
    <3>2. \A d \in Clients : chosen'[d] \in {chosen[d], Nothing, [by |-> t, mode |-> asks[t].mode]}
      BY <1>5
    <3> QED
      BY <1>t, <3>1, <3>2
  <2> QED
    BY <2>1 DEF ModeDone
<1>7. PresenceTypeOK'
  BY <1>t, <1>1, <1>3, <1>6 DEF PresenceTypeOK
<1>8. Steady
  BY <1>t, <1>1, <1>2 DEF Steady, OpenPcs, Numbered, ConnPcs
<1>9. connGen' = connGen /\ \A c \in Clients : OpenOf(c)' = OpenOf(c)
  BY <1>8, SteadyCounts
<1>10. Numbered'
  <2>1. \A k \in Conns : pc'[k] \in ConnPcs
    BY <1>t, <1>1, <1>2 DEF Numbered, ConnPcs, OpenPcs, Leaving
  <2>2. \A c \in Clients : pc'[c] \in {"idle", "asked", "taken"}
    BY <1>t, <1>1, <1>2 DEF Numbered
  <2>3. \A k \in Conns : pc'[k] = "unused" <=> k > connGen'
    BY <1>t, <1>8, <1>9 DEF Numbered, Steady
  <2>4. \A k \in Conns : pc'[k] # "unused" => owner'[k] \in Clients
    BY <1>t, <1>1, <1>8 DEF Numbered, Steady
  <2> QED
    BY <2>1, <2>2, <2>3, <2>4 DEF Numbered
<1>11. Counted'
  BY <1>t, <1>1, <1>9 DEF Counted
<1>12. \A k \in Conns : pc'[k] \in Leaving <=> pc[k] \in Leaving
  BY <1>t, <1>1, <1>2 DEF Leaving, Numbered
<1>13. Generations'
  BY <1>t, <1>1, <1>9, <1>12 DEF Generations, Holds
<1>14. \A u \in Threads : pc'[u] \notin Asking
  BY <1>t, <1>1, <1>2 DEF Syncs, Asking
<1>15. Syncs'
  <2>1. \A u \in Threads : syncMu' # u
    BY <1>1
  <2>2. \A u \in Threads : pc'[u] \notin {"taken", "retaken", "resetting"}
    BY <1>14 DEF Asking
  <2>3. filters = FiltersFor(plan[t])
    BY <1>t, <1>1 DEF Syncs
  <2>4. filters' = FiltersFor(excModes)'
    BY <1>1, <2>3 DEF FiltersFor
  <2> QED
    BY <1>14, <2>1, <2>2, <2>4 DEF Syncs
<1>16. Chosen'
  <2>1. \A k \in Conns : pc'[k] \notin {"resetting", "retaken"}
    BY <1>14 DEF Asking
  <2>2. ASSUME NEW d \in Clients, chosen'[d].by \in Conns
        PROVE  /\ pc'[chosen'[d].by] # "unused" /\ owner'[chosen'[d].by] = d
               /\ pc'[chosen'[d].by] \in OpenPcs => excModes'[d] = chosen'[d].mode
    <3>1. CASE pc[t] = "taken" /\ d = Who(t)
      <4>1. chosen'[d].by = t /\ chosen'[d].mode = excModes'[d]
        BY <1>5, <3>1
      <4>2. t \in Conns /\ pc'[t] # "unused" /\ owner'[t] = d
        BY <1>1, <1>2, <2>2, <3>1, <4>1 DEF Who
      <4> QED
        BY <4>1, <4>2
    <3>2. CASE pc[t] = "taken" /\ d # Who(t)
      <4>1. chosen'[d] = chosen[d] /\ excModes'[d] = excModes[d]
        BY <1>5, <2>2, <3>2 DEF Nothing
      <4> QED
        BY <1>t, <1>8, <2>2, <4>1 DEF Chosen, Steady
    <3>3. CASE pc[t] = "retaken"
      <4>1. /\ t \in Conns /\ Who(t) = owner[t] /\ ~asks[t].force
            /\ ~(chosen[owner[t]].by \in Conns /\ pc[chosen[owner[t]].by] \in OpenPcs)
        BY <1>t, <1>2, <3>3 DEF Chosen, Syncs, Who
      <4>2. chosen'[d] = chosen[d] /\ (d # owner[t] => excModes'[d] = excModes[d])
        BY <1>5, <3>3, <4>1
      <4> QED
        BY <1>t, <1>8, <2>2, <4>1, <4>2 DEF Chosen, Steady
    <3> QED
      BY <1>1, <3>1, <3>2, <3>3
  <2> QED
    BY <2>1, <2>2 DEF Chosen
<1> QED
  BY <1>7, <1>10, <1>11, <1>13, <1>15, <1>16 DEF ModesInv

----------------------------------------------------------------------------
(***************************************************************************)
(* The modes that editors set stay in force.                               *)
(***************************************************************************)

\* Steps on the lease, the end of the session and of the daemon, and those on
\* breakpoints leave the connections and modes as they are.
LEMMA ApartKeeps ==
    ASSUME ModesInv,
           UNCHANGED <<pc, owner, pres, gen, asks, excModes, filters, syncMu, plan, fails, chosen>>,
           ebps' \in [Clients -> BOOLEAN], asked' \in Nat, up' \in BOOLEAN
    PROVE  ModesInv'
<1>1. PresenceTypeOK'
  BY DEF ModesInv, PresenceTypeOK
<1>2. Steady
  BY DEF Steady
<1>3. connGen' = connGen /\ \A c \in Clients : OpenOf(c)' = OpenOf(c)
  BY <1>2, SteadyCounts
<1>4. Numbered' /\ Counted' /\ Generations'
  BY <1>3 DEF ModesInv, Numbered, Counted, Generations, Holds
<1>5. Syncs' /\ Chosen'
  BY SyncsKept, ChosenKept DEF ModesInv, Who
<1> QED
  BY <1>1, <1>4, <1>5 DEF ModesInv

\* At first nobody is connected.
LEMMA ModesInit ==
    ASSUME Init
    PROVE  ModesInv
<1> USE PresenceAssumption, ClientsAssumption DEF Threads, Conns
<1>1. PresenceTypeOK
  BY DEF Init, PresenceTypeOK, ConnPcs, NoEntry, Entries, NoAsk, NoModes, Nothing, Modes
<1>2. connGen = 0 /\ \A c \in Clients : OpenOf(c) = {}
  <2>1. {k \in Conns : pc[k] # "unused"} = {}
    BY DEF Init
  <2>2. \A c \in Clients : OpenOf(c) = {}
    BY DEF Init, OpenOf, OpenPcs
  <2> QED
    BY <2>1, <2>2, FS_EmptySet DEF connGen
<1>p. \A t \in Threads : pc[t] = IF t \in Conns THEN "unused" ELSE "idle"
  BY DEF Init
<1>q. \A c \in Clients : c \notin Conns
  OBVIOUS
<1>3. Numbered
  <2>1. \A k \in Conns : pc[k] = "unused" /\ k > 0
    BY <1>p
  <2>2. \A c \in Clients : pc[c] = "idle"
    BY <1>p, <1>q
  <2> QED
    BY <1>2, <2>1, <2>2 DEF Numbered, ConnPcs
<1>4. Counted
  BY <1>2, FS_EmptySet DEF Init, Counted, NoEntry
<1>5. Generations
  <2>1. \A k \in Conns : pc[k] \notin Leaving
    BY <1>p DEF Leaving
  <2>2. \A c \in Clients : pres[c].conns = 0 /\ pres[c].gen = 0
    BY DEF Init, NoEntry
  <2> QED
    BY <1>2, <2>1, <2>2 DEF Generations, Holds
<1>6. Syncs
  <2>1. Nobody \notin Threads
    OBVIOUS
  <2>2. \A t \in Threads : pc[t] \notin Asking /\ pc[t] \notin {"taken", "retaken", "resetting"}
    BY DEF Init, Asking
  <2>3. filters = FiltersFor(excModes)
    BY DEF Init, FiltersFor
  <2> QED
    BY <2>1, <2>2, <2>3 DEF Init, Syncs
<1>7. Chosen
  <2>1. Nobody \notin Conns /\ \A c \in Clients : chosen[c].by = Nobody
    BY DEF Init, Nothing
  <2>2. \A k \in Conns : pc[k] \notin {"resetting", "retaken"}
    BY <1>p
  <2> QED
    BY <2>1, <2>2 DEF Chosen
<1> QED
  BY <1>1, <1>3, <1>4, <1>5, <1>6, <1>7 DEF ModesInv

\* Every step keeps the invariant.
LEMMA ModesStep ==
    ASSUME ModesInv, [Next]_vars
    PROVE  ModesInv'
<1>1. CASE \E c \in Editors : Connect(c)
  BY <1>1, ConnectKeeps
<1>2. ASSUME NEW k \in Conns, NEW restart \in BOOLEAN, Leave(k, restart) PROVE ModesInv'
  BY <1>2, LeaveKeeps
<1>3. ASSUME NEW k \in Conns, \/ GraceEnds(k) \/ ExceptionsSet(k) \/ LeaveBreakpoints(k)
                              \/ LeaveCheckMode(k) \/ ResetRefused(k) \/ LeaveLast(k)
      PROVE  ModesInv'
  BY <1>3, LeavingStepsKeep, ExceptionsSetKeeps, LeaveLastKeeps
<1>4. ASSUME NEW t \in Threads, NEW mode \in Modes, NEW force \in BOOLEAN, ModeBegin(t, mode, force)
      PROVE  ModesInv'
  BY <1>4, ModeBeginKeeps
<1>5. ASSUME NEW t \in Threads, AdapterTakes(t) \/ ModeFails(t) \/ ModeDone(t) PROVE ModesInv'
  BY <1>5, AdapterTakesKeeps, ModeFailsKeeps, ModeDoneKeeps
<1>6. asked \in Nat /\ up \in BOOLEAN /\ ebps \in [Clients -> BOOLEAN]
  BY DEF ModesInv, PresenceTypeOK
<1>7. ASSUME NEW k \in Conns, SetEditorBreakpoints(k) PROVE ModesInv'
  BY <1>6, <1>7, ApartKeeps DEF SetEditorBreakpoints
<1>8. CASE ClientLease
  BY <1>6, <1>8, ApartKeeps DEF ClientLease
<1>9. CASE SessionEnds \/ UNCHANGED vars
  BY <1>6, <1>9, ApartKeeps DEF SessionEnds, vars, presenceVars
<1>10. CASE DaemonStops
  BY <1>6, <1>10, ApartKeeps DEF DaemonStops
<1> QED
  BY <1>1, <1>2, <1>3, <1>4, <1>5, <1>7, <1>8, <1>9, <1>10 DEF Next

\* Presence counts right, and modes are set one at a time (presence.go,
\* exceptions.go), in every state.
THEOREM ModesKept == Spec => []ModesInv
<1>1. Init => ModesInv
  BY ModesInit
<1>2. ModesInv /\ [Next]_vars => ModesInv'
  BY ModesStep
<1> QED
  BY <1>1, <1>2, PTL DEF Spec

\* The mode a connection set last is in force while it is open, whatever
\* cleanup of an earlier one runs; and the adapter has the modes' filters.
THEOREM ModesInForce == Spec => []ModeInForce
<1>1. ModesInv => ModeInForce
  <2> USE PresenceAssumption, ClientsAssumption DEF Threads, Conns
  <2> SUFFICES ASSUME ModesInv PROVE ModeInForce
    OBVIOUS
  <2>1. Syncs /\ Chosen
    BY DEF ModesInv
  <2>2. ASSUME syncMu = Nobody PROVE \A t \in Threads : pc[t] \notin {"taken", "retaken"}
    <3>1. Nobody \notin Threads
      OBVIOUS
    <3> QED
      BY <2>1, <2>2, <3>1 DEF Syncs, Asking
  <2> QED
    BY <2>1, <2>2 DEF ModeInForce, Syncs, Chosen, OpenPcs
<1> QED
  BY <1>1, ModesKept, PTL

\* Presence changes the lease only by steps of ControlLease, so that what is
\* proved of the lease alone holds of it here.
LEMMA PresenceLease == Spec => LeaseSpec
<1>1. Init => LeaseInit
  BY DEF Init
<1>2. ModesInv /\ [Next]_vars => [LeaseNext]_leaseVars
  <2> SUFFICES ASSUME ModesInv, Next PROVE LeaseNext \/ UNCHANGED leaseVars
    BY DEF vars
  <2>1. CASE \E c \in Editors : Connect(c)
    BY <2>1 DEF Connect
  <2>2. ASSUME NEW k \in Conns,
               \/ \E restart \in BOOLEAN : Leave(k, restart)
               \/ GraceEnds(k) \/ SetEditorBreakpoints(k) \/ ExceptionsSet(k)
               \/ LeaveBreakpoints(k) \/ LeaveCheckMode(k) \/ ResetRefused(k)
        PROVE  UNCHANGED leaseVars
    BY <2>2 DEF Leave, GraceEnds, SetEditorBreakpoints, ExceptionsSet, LeaveBreakpoints,
                LeaveCheckMode, ResetRefused
  <2>3. ASSUME NEW k \in Conns, LeaveLast(k) PROVE LeaseNext \/ UNCHANGED leaseVars
    <3>1. owner[k] \in Clients
      BY <2>3 DEF LeaveLast, ModesInv, Numbered
    <3> QED
      BY <2>3, <3>1 DEF LeaveLast, LeaveAll, LeaseNext
  <2>4. ASSUME NEW t \in Threads,
               \/ \E mode \in Modes, force \in BOOLEAN : ModeBegin(t, mode, force)
               \/ AdapterTakes(t) \/ ModeFails(t) \/ ModeDone(t)
        PROVE  UNCHANGED leaseVars
    BY <2>4 DEF ModeBegin, AdapterTakes, ModeFails, ModeDone
  <2>5. CASE ClientLease \/ SessionEnds \/ DaemonStops
    BY <2>5 DEF ClientLease, SessionEnds, DaemonStops, LeaseNext
  <2> QED
    BY <2>1, <2>2, <2>3, <2>4, <2>5 DEF Next
<1> QED
  BY <1>1, <1>2, ModesKept, PTL DEF Spec, LeaseSpec

----------------------------------------------------------------------------
(***************************************************************************)
(* A cleanup takes all and only what it should.                            *)
(***************************************************************************)

\* The steps of one connection, of one thread, and those of neither.
ConnStep(k) ==
    \/ \E restart \in BOOLEAN : Leave(k, restart)
    \/ GraceEnds(k) \/ SetEditorBreakpoints(k) \/ ExceptionsSet(k)
    \/ LeaveBreakpoints(k) \/ LeaveCheckMode(k) \/ ResetRefused(k) \/ LeaveLast(k)

ModeStep(t) ==
    \/ \E mode \in Modes, force \in BOOLEAN : ModeBegin(t, mode, force)
    \/ AdapterTakes(t) \/ ModeFails(t) \/ ModeDone(t)

OtherStep == ClientLease \/ SessionEnds \/ DaemonStops \/ UNCHANGED vars

\* What no step does: end the end of a session or of the daemon, take back a
\* failure, give a connection away, return to a cleanup, or use a generation
\* again.
LEMMA StepFacts ==
    ASSUME ModesInv, [Next]_vars
    PROVE  /\ (live' => live) /\ (up' => up) /\ (fails' = 0 => fails = 0)
           /\ \A k \in Conns : pc[k] # "unused" => owner'[k] = owner[k]
           /\ \A k \in Conns : pc'[k] \in Leaving =>
                 \/ pc[k] \in Leaving /\ gen'[k] = gen[k]
                 \/ pc[k] = "open" /\ pc'[k] \in {"timer", "leave"} /\ up
           /\ \A c \in Clients : pres'[c].gen \in {0, pres[c].gen, connGen + 1}
<1> USE PresenceAssumption, ClientsAssumption DEF Threads, Conns
<1>t. /\ Numbered
      /\ pres \in [Clients -> Entries] /\ pc \in [Threads -> ConnPcs \cup {"idle"}]
      /\ owner \in [Conns -> Clients \cup {Nobody}] /\ gen \in [Conns -> Nat]
      /\ fails \in Nat
  BY DEF ModesInv, PresenceTypeOK
<1>1. ASSUME NEW c \in Editors, Connect(c)
      PROVE  /\ UNCHANGED <<live, up, fails, gen>>
             /\ \A k \in Conns : pc[k] # "unused" => owner'[k] = owner[k]
             /\ \A k \in Conns : pc'[k] \in Leaving => pc[k] \in Leaving
             /\ \A d \in Clients : pres'[d].gen \in {pres[d].gen, connGen + 1}
  <2>1. connGen + 1 \in Conns /\ pc[connGen + 1] = "unused"
    BY <1>t, <1>1, ConnsFinite DEF Connect, Numbered
  <2>2. \A d \in Clients : pres'[d].gen \in {pres[d].gen, connGen + 1}
    BY <1>t, <1>1 DEF Connect
  <2>3. \A k \in Conns : pc[k] # "unused" => owner'[k] = owner[k]
    BY <1>t, <1>1, <2>1 DEF Connect
  <2>4. \A k \in Conns : pc'[k] \in Leaving => pc[k] \in Leaving
    BY <1>t, <1>1, <2>1 DEF Connect, Leaving
  <2> QED
    BY <1>1, <2>2, <2>3, <2>4 DEF Connect, leaseVars
<1>2. ASSUME NEW k \in Conns, ConnStep(k)
      PROVE  /\ UNCHANGED <<live, up, fails, owner>>
             /\ \A l \in Conns : pc'[l] \in Leaving =>
                   \/ pc[l] \in Leaving /\ gen'[l] = gen[l]
                   \/ pc[l] = "open" /\ pc'[l] \in {"timer", "leave"} /\ up
             /\ \A d \in Clients : pres'[d].gen \in {0, pres[d].gen}
  <2>1. CASE \E restart \in BOOLEAN : Leave(k, restart)
    <3>1. PICK restart \in BOOLEAN : Leave(k, restart)
      BY <2>1
    <3>2. UNCHANGED <<live, up, fails, owner>>
      BY <3>1 DEF Leave, leaseVars
    <3>3. \A l \in Conns : l # k => pc'[l] = pc[l] /\ gen'[l] = gen[l]
      BY <1>t, <3>1 DEF Leave
    <3>4. pc[k] = "open" /\ (pc'[k] = "gone" \/ (up /\ pc'[k] \in {"timer", "leave"}))
      BY <1>t, <3>1 DEF Leave
    <3>5. owner[k] \in Clients /\ pres[owner[k]] \in Entries
      BY <1>t, <3>4 DEF Numbered
    <3>6. \A d \in Clients : d # owner[k] => pres'[d] = pres[d]
      BY <1>t, <3>1, <3>5 DEF Leave
    <3>7. pres'[owner[k]].gen \in {0, pres[owner[k]].gen}
      <4>1. \/ pres'[owner[k]] = [pres[owner[k]] EXCEPT !.conns = @ - 1]
            \/ pres'[owner[k]] = NoEntry
        BY <1>t, <3>1, <3>5 DEF Leave
      <4> QED
        BY <3>5, <4>1 DEF Entries, NoEntry
    <3> QED
      BY <3>2, <3>3, <3>4, <3>6, <3>7 DEF Leaving
  <2>2. CASE GraceEnds(k) \/ LeaveBreakpoints(k) \/ LeaveCheckMode(k) \/ ResetRefused(k)
    BY <1>t, <2>2 DEF GraceEnds, LeaveBreakpoints, LeaveCheckMode, ResetRefused, Leaving, leaseVars
  <2>3. CASE SetEditorBreakpoints(k)
    BY <1>t, <2>3 DEF SetEditorBreakpoints, Leaving, leaseVars
  <2>5. CASE ExceptionsSet(k)
    <3>1. UNCHANGED <<live, up, fails, owner>> /\ pc' = [pc EXCEPT ![k] = "open"] /\ gen' = gen
      BY <2>5 DEF ExceptionsSet, leaseVars
    <3>2. \A d \in Clients : pres'[d] \in {pres[d], [pres[d] EXCEPT !.excSet = asks[k].mode # "none"]}
      BY <1>t, <2>5 DEF ExceptionsSet
    <3>3. \A d \in Clients : pres'[d].gen = pres[d].gen
      <4> SUFFICES ASSUME NEW d \in Clients PROVE pres'[d].gen = pres[d].gen
        OBVIOUS
      <4>1. pres[d] \in Entries /\ (pres'[d] = pres[d] \/ pres'[d] = [pres[d] EXCEPT !.excSet = asks[k].mode # "none"])
        BY <1>t, <3>2
      <4> QED
        BY <4>1 DEF Entries
    <3> QED
      BY <1>t, <3>1, <3>3 DEF Leaving
  <2>4. CASE LeaveLast(k)
    <3>1. UNCHANGED <<live, up, fails, owner>>
      BY <2>4 DEF LeaveLast, LeaveAll, LeaveLease, leaseVars
    <3>2. \A l \in Conns : pc'[l] \in Leaving => pc[l] \in Leaving /\ gen'[l] = gen[l]
      BY <1>t, <2>4 DEF LeaveLast, Leaving
    <3>3. pres' = pres \/ pres' = [pres EXCEPT ![owner[k]] = NoEntry]
      BY <2>4 DEF LeaveLast, LeaveAll
    <3>4. \A d \in Clients : pres'[d] \in {pres[d], NoEntry}
      BY <1>t, <3>3
    <3> QED
      BY <3>1, <3>2, <3>4 DEF NoEntry
  <2> QED
    BY <1>2, <2>1, <2>2, <2>3, <2>4, <2>5 DEF ConnStep
<1>3. ASSUME NEW t \in Threads, ModeStep(t)
      PROVE  /\ UNCHANGED <<live, up, owner, pres, gen>> /\ (fails' = 0 => fails = 0)
             /\ \A l \in Conns : pc'[l] \in Leaving => pc[l] \in Leaving
  <2>1. UNCHANGED <<live, up, owner, pres, gen>> /\ (fails' = 0 => fails = 0)
    BY <1>t, <1>3 DEF ModeStep, ModeBegin, AdapterTakes, ModeFails, ModeDone, leaseVars
  <2>2. \A u \in Threads : u # t => pc'[u] = pc[u]
    BY <1>t, <1>3 DEF ModeStep, ModeBegin, AdapterTakes, ModeFails, ModeDone
  <2>3. t \in Conns /\ pc'[t] \in Leaving => pc[t] \in Leaving
    BY <1>t, <1>3 DEF ModeStep, ModeBegin, AdapterTakes, ModeFails, ModeDone, Back, Leaving
  <2> QED
    BY <2>1, <2>2, <2>3
<1>4. ASSUME OtherStep
      PROVE  (live' => live) /\ (up' => up) /\ UNCHANGED <<pc, owner, pres, gen, fails>>
  <2>1. CASE ClientLease
    <3>1. UNCHANGED <<pc, owner, pres, gen, fails, up>>
      BY <2>1 DEF ClientLease
    <3>2. live' = live
      BY <2>1 DEF ClientLease, TakeLease, GrantLease, ReleaseLease, Acquire, RequestLease
    <3> QED
      BY <3>1, <3>2
  <2>2. CASE SessionEnds
    BY <2>2, Zenon DEF SessionEnds, EndLease, presenceVars
  <2>3. CASE DaemonStops
    BY <2>3, Zenon DEF DaemonStops, leaseVars
  <2>4. CASE UNCHANGED vars
    BY <2>4 DEF vars, leaseVars, presenceVars
  <2> QED
    BY <1>4, <2>1, <2>2, <2>3, <2>4 DEF OtherStep
<1>5. \/ \E c \in Editors : Connect(c)
      \/ \E k \in Conns : ConnStep(k)
      \/ \E t \in Threads : ModeStep(t)
      \/ OtherStep
  BY DEF Next, ConnStep, ModeStep, OtherStep
<1> QED
  BY <1>1, <1>2, <1>3, <1>4, <1>5

\* The leaving of a connection holds after a step only if it did before, or
\* began with the step.
LEMMA HoldsBefore ==
    ASSUME ModesInv, [Next]_vars, NEW k \in Conns, Holds(k)'
    PROVE  /\ owner'[k] = owner[k] /\ owner[k] \in Clients
           /\ \/ Holds(k)
              \/ pc[k] = "open" /\ pc'[k] \in {"timer", "leave"} /\ up
<1>1. ModesInv'
  BY ModesStep
<1>2. pc'[k] \in Leaving /\ gen'[k] > 0 /\ pres'[owner'[k]].gen = gen'[k]
  BY <1>1 DEF ModesInv, Generations, Holds
<1>3. CASE pc[k] = "open" /\ pc'[k] \in {"timer", "leave"} /\ up
  BY <1>3, StepFacts DEF ModesInv, Numbered
<1>4. CASE pc[k] \in Leaving /\ gen'[k] = gen[k]
  <2>1. owner'[k] = owner[k] /\ owner[k] \in Clients
    BY <1>4, StepFacts DEF ModesInv, Numbered, Leaving
  <2>2. gen[k] \in Nat /\ gen[k] <= connGen /\ connGen \in Nat
    BY <1>4, ConnsFinite DEF ModesInv, Generations, PresenceTypeOK
  <2>3. pres'[owner[k]].gen \in {0, pres[owner[k]].gen, connGen + 1}
    BY <2>1, StepFacts
  <2>4. pres[owner[k]].gen = gen[k]
    BY <1>2, <1>4, <2>1, <2>2, <2>3
  <2> QED
    BY <1>4, <2>1, <2>4 DEF Holds
<1> QED
  BY <1>2, <1>3, <1>4, StepFacts

\* While a live session's leaving holds, leftLocked says so, and no
\* connection of the client is open.
LEMMA HoldsLeft ==
    ASSUME ModesInv, NEW k \in Conns, Holds(k)
    PROVE  /\ owner[k] \in Clients /\ pres[owner[k]].conns = 0
           /\ live => Left(k)
           /\ \A l \in Conns : owner[l] = owner[k] => pc[l] \notin OpenPcs
<1>1. pc[k] \in Leaving /\ gen[k] > 0 /\ owner[k] \in Clients /\ pres[owner[k]].conns = 0
  BY DEF Holds, ModesInv, Generations, Numbered, Leaving
<1>2. live => Left(k)
  BY <1>1 DEF Holds, Left, NoEntry
<1>3. \A l \in Conns : owner[l] = owner[k] => pc[l] \notin OpenPcs
  BY <1>1, NoneOpen DEF ModesInv
<1> QED
  BY <1>1, <1>2, <1>3

\* No two leavings of a client hold at once.
LEMMA OneHolds ==
    ASSUME ModesInv, NEW k \in Conns, NEW l \in Conns, Holds(k), Left(l), pc[l] \in Leaving,
           owner[k] = owner[l]
    PROVE  k = l
  BY DEF ModesInv, Generations, Holds, Left

\* Breakpoints come only from open connections; a cleanup whose leaving holds
\* is past its first step only without them.
LEMMA BreakpointsStep ==
    ASSUME ModesInv, BreakpointsGone, [Next]_vars
    PROVE  BreakpointsGone'
<1> USE PresenceAssumption, ClientsAssumption DEF Threads, Conns
<1>t. /\ Numbered /\ pc \in [Threads -> ConnPcs \cup {"idle"}]
      /\ owner \in [Conns -> Clients \cup {Nobody}] /\ ebps \in [Clients -> BOOLEAN]
  BY DEF ModesInv, PresenceTypeOK
<1> SUFFICES ASSUME NEW k \in Conns, live', Holds(k)', pc'[k] \notin {"timer", "leave"}
             PROVE  ~ebps'[owner'[k]]
  BY DEF BreakpointsGone
<1>1. owner'[k] = owner[k] /\ owner[k] \in Clients /\ Holds(k)
  BY HoldsBefore
<1>2. live /\ Left(k) /\ pc[k] \in Leaving
  BY <1>1, HoldsLeft, StepFacts DEF Holds
<1>3. \A l \in Conns : owner[l] = owner[k] => pc[l] \notin OpenPcs
  BY <1>1, HoldsLeft
<1>4. pc[k] \notin {"timer", "leave"} => ~ebps[owner[k]]
  BY <1>1, <1>2 DEF BreakpointsGone
<1>5. pc'[k] \in Leaving
  BY DEF Holds
<1>6. CASE \E c \in Editors : Connect(c)
  <2>1. ebps' = ebps /\ pc'[k] = pc[k]
    BY <1>t, <1>5, <1>6 DEF Connect, Leaving
  <2> QED
    BY <1>1, <1>4, <2>1
<1>7. ASSUME NEW l \in Conns, ConnStep(l) PROVE ~ebps'[owner'[k]]
  <2>1. CASE SetEditorBreakpoints(l)
    <3>1. pc'[k] = pc[k] /\ owner[l] # owner[k]
      BY <1>3, <2>1 DEF SetEditorBreakpoints, OpenPcs
    <3> QED
      BY <1>t, <1>1, <1>4, <2>1, <3>1 DEF SetEditorBreakpoints
  <2>2. CASE LeaveBreakpoints(l) /\ l = k
    BY <1>t, <1>1, <1>2, <2>2 DEF LeaveBreakpoints
  <2>3. CASE LeaveBreakpoints(l) /\ l # k
    BY <1>t, <1>1, <1>4, <2>3 DEF LeaveBreakpoints
  <2>4. CASE GraceEnds(l)
    BY <1>t, <1>1, <1>4, <1>5, <2>4 DEF GraceEnds, Leaving
  <2>5. CASE \E restart \in BOOLEAN : Leave(l, restart)
    <3>1. ebps' = ebps /\ (k = l \/ pc'[k] = pc[k]) /\ pc[l] = "open"
      BY <1>t, <2>5 DEF Leave
    <3> QED
      BY <1>1, <1>2, <1>4, <3>1 DEF Leaving
  <2>6. CASE ExceptionsSet(l) \/ LeaveCheckMode(l) \/ ResetRefused(l) \/ LeaveLast(l)
    <3>1. /\ ebps' = ebps /\ (k = l \/ pc'[k] = pc[k])
          /\ pc[l] \in {"note", "check", "reset", "last"}
      BY <1>t, <2>6 DEF ExceptionsSet, LeaveCheckMode, ResetRefused, LeaveLast
    <3> QED
      BY <1>1, <1>4, <3>1
  <2> QED
    BY <1>7, <2>1, <2>2, <2>3, <2>4, <2>5, <2>6 DEF ConnStep
<1>8. ASSUME NEW t \in Threads, ModeStep(t) PROVE ~ebps'[owner'[k]]
  <2>1. /\ ebps' = ebps /\ (k = t \/ pc'[k] = pc[k])
        /\ pc[t] \notin {"timer", "leave"}
    BY <1>t, <1>8 DEF ModeStep, ModeBegin, MayAsk, AdapterTakes, ModeFails, ModeDone
  <2> QED
    BY <1>1, <1>4, <2>1
<1>9. CASE OtherStep
  <2>1. ebps' = ebps /\ pc' = pc
    BY <1>9 DEF OtherStep, ClientLease, SessionEnds, DaemonStops, presenceVars, vars
  <2> QED
    BY <1>1, <1>4, <2>1
<1> QED
  BY <1>6, <1>7, <1>8, <1>9 DEF Next, ConnStep, ModeStep, OtherStep

\* With one connection of a client asking at a time (Overlap is FALSE: the
\* facade's worker is ordered), what is noted is what was chosen.
LEMMA NotesStep ==
    ASSUME ModesInv, Notes, [Next]_vars, Overlap = FALSE
    PROVE  Notes'
<1> USE PresenceAssumption, ClientsAssumption DEF Threads, Conns
<1> DEFINE Setting == {"asked", "taken", "note"}
<1>t. /\ Numbered /\ pc \in [Threads -> ConnPcs \cup {"idle"}]
      /\ owner \in [Conns -> Clients \cup {Nobody}]
      /\ asks \in [Threads -> [mode : Modes, force : BOOLEAN]]
      /\ chosen \in [Clients -> [by : Threads \cup {Nobody}, mode : Modes]]
  BY DEF ModesInv, PresenceTypeOK
<1>n. \A k \in Conns : pc[k] # "unused" => owner'[k] = owner[k]
  BY StepFacts
<1>u. ASSUME NEW k \in Conns, NEW l \in Conns, owner[k] = owner[l], pc[k] \in Setting, pc[l] \in Setting
      PROVE  k = l
  BY <1>u DEF Notes
\* A step in which no thread begins to ask, or stores a mode.
<1>q. ASSUME \A k \in Conns : pc'[k] \in Setting => pc[k] \in Setting,
             \A k \in Conns : pc'[k] = "note" => pc[k] = "note" /\ asks'[k] = asks[k],
             chosen' = chosen
      PROVE  Notes'
  <2>1. \A k, l \in Conns : owner'[k] = owner'[l] /\ pc'[k] \in Setting /\ pc'[l] \in Setting => k = l
    BY <1>n, <1>u, <1>q
  <2>2. ASSUME NEW k \in Conns, pc'[k] = "note"
        PROVE  chosen'[owner'[k]].by \notin Conns \/ (chosen'[owner'[k]].by = k /\ chosen'[owner'[k]].mode = asks'[k].mode)
    <3>1. pc[k] = "note" /\ asks'[k] = asks[k] /\ owner'[k] = owner[k]
      BY <1>n, <1>q, <2>2
    <3> QED
      BY <1>q, <3>1 DEF Notes
  <2> QED
    BY <2>1, <2>2 DEF Notes
<1>6. CASE \E c \in Editors : Connect(c)
  <2>1. chosen' = chosen /\ asks' = asks /\ \A k \in Conns : pc'[k] \in Setting => pc'[k] = pc[k]
    BY <1>t, <1>6 DEF Connect
  <2> QED
    BY <1>q, <2>1
<1>7. ASSUME NEW l \in Conns, ConnStep(l) PROVE Notes'
  <2>1. chosen' = chosen /\ \A k \in Conns : k # l => asks'[k] = asks[k] /\ pc'[k] = pc[k]
    BY <1>t, <1>7 DEF ConnStep, Leave, GraceEnds, SetEditorBreakpoints, ExceptionsSet, LeaveBreakpoints,
       LeaveCheckMode, ResetRefused, LeaveLast
  <2>2. pc'[l] \notin Setting
    BY <1>t, <1>7 DEF ConnStep, Leave, GraceEnds, SetEditorBreakpoints, ExceptionsSet, LeaveBreakpoints,
       LeaveCheckMode, ResetRefused, LeaveLast
  <2> QED
    BY <1>q, <2>1, <2>2
<1>8. ASSUME NEW t \in Threads, NEW mode \in Modes, NEW force \in BOOLEAN, ModeBegin(t, mode, force)
      PROVE  Notes'
  <2>1. /\ chosen' = chosen /\ owner' = owner
        /\ \A k \in Conns : k # t => asks'[k] = asks[k] /\ pc'[k] = pc[k]
        /\ pc'[t] # "note"
    BY <1>t, <1>8 DEF ModeBegin
  <2>2. CASE t \in Conns /\ pc[t] = "open"
    <3>1. \A k \in Conns \ {t} : owner[k] = owner[t] => pc[k] \notin Setting
      BY <1>8, <2>2 DEF ModeBegin, MayAsk
    <3>2. \A k, l \in Conns : owner'[k] = owner'[l] /\ pc'[k] \in Setting /\ pc'[l] \in Setting => k = l
      BY <1>u, <2>1, <3>1
    <3>3. \A k \in Conns : pc'[k] = "note" => k # t /\ pc[k] = "note" /\ asks'[k] = asks[k]
      BY <2>1
    <3> QED
      BY <2>1, <3>2, <3>3 DEF Notes
  <2>3. CASE ~(t \in Conns /\ pc[t] = "open")
    <3>1. t \in Conns => pc'[t] \notin Setting
      BY <1>t, <1>8, <2>3 DEF ModeBegin, MayAsk, Numbered, ConnPcs, OpenPcs, Leaving
    <3> QED
      BY <1>q, <2>1, <3>1
  <2> QED
    BY <2>2, <2>3
<1>9. ASSUME NEW t \in Threads, AdapterTakes(t) \/ ModeFails(t) PROVE Notes'
  <2>1. /\ chosen' = chosen
        /\ \A k \in Conns : k # t => asks'[k] = asks[k] /\ pc'[k] = pc[k]
        /\ pc'[t] # "note"
        /\ pc'[t] \in Setting => pc[t] \in Setting
    BY <1>t, <1>9 DEF AdapterTakes, ModeFails, Back
  <2> QED
    BY <1>q, <2>1
<1>10. ASSUME NEW t \in Threads, ModeDone(t) PROVE Notes'
  <2>1. /\ \A k \in Conns : k # t => asks'[k] = asks[k] /\ pc'[k] = pc[k]
        /\ owner' = owner
    BY <1>t, <1>10 DEF ModeDone
  <2>2. CASE pc[t] = "retaken"
    <3>1. chosen' = chosen /\ pc'[t] = "last"
      BY <1>t, <1>10, <2>2 DEF ModeDone, Back
    <3> QED
      BY <1>q, <2>1, <3>1
  <2>3. CASE pc[t] = "taken"
    <3>1. \A d \in Clients : chosen'[d] = IF d = Who(t) THEN [by |-> t, mode |-> asks[t].mode]
                                         ELSE IF asks[t].force THEN Nothing ELSE chosen[d]
      BY <1>10, <2>3 DEF ModeDone
    <3>2. t \in Conns => pc'[t] = "note" /\ asks'[t] = asks[t]
      BY <1>t, <1>10, <2>3 DEF ModeDone
    <3>3. \A k, l \in Conns : owner'[k] = owner'[l] /\ pc'[k] \in Setting /\ pc'[l] \in Setting => k = l
      BY <1>u, <2>1, <2>3
    <3>4. ASSUME NEW k \in Conns, pc'[k] = "note", chosen'[owner'[k]].by \in Conns
          PROVE  chosen'[owner'[k]].by = k /\ chosen'[owner'[k]].mode = asks'[k].mode
      <4>1. owner[k] \in Clients /\ pc[k] \in Setting
        BY <1>t, <2>1, <2>3, <3>4 DEF Numbered
      <4>2. CASE owner[k] = Who(t)
        <5>1. chosen'[owner[k]].by = t /\ chosen'[owner[k]].mode = asks[t].mode
          BY <3>1, <4>1, <4>2
        <5>2. t \in Conns /\ Who(t) = owner[t]
          BY <2>1, <3>4, <5>1 DEF Who
        <5>3. k = t
          BY <1>u, <2>3, <4>1, <4>2, <5>2
        <5> QED
          BY <2>1, <3>2, <5>1, <5>2, <5>3
      <4>3. CASE owner[k] # Who(t)
        <5>1. k # t
          BY <4>3 DEF Who
        <5>2. chosen'[owner[k]] = chosen[owner[k]]
          <6>1. Nobody \notin Conns
            OBVIOUS
          <6> QED
            BY <2>1, <3>1, <3>4, <4>1, <4>3, <6>1 DEF Nothing
        <5> QED
          BY <2>1, <3>4, <5>1, <5>2 DEF Notes
      <4> QED
        BY <4>2, <4>3
    <3> QED
      BY <3>3, <3>4 DEF Notes
  <2> QED
    BY <1>10, <2>2, <2>3 DEF ModeDone
<1>11. CASE OtherStep
  <2>1. UNCHANGED <<pc, asks, chosen>>
    BY <1>11 DEF OtherStep, ClientLease, SessionEnds, DaemonStops, presenceVars, vars
  <2> QED
    BY <1>q, <2>1
<1> QED
  BY <1>6, <1>7, <1>8, <1>9, <1>10, <1>11 DEF Next, ConnStep, OtherStep

\* What an editor set and did not note is no mode, and a cleanup that comes to
\* its last step has reset what was noted.
LEMMA NotedStep ==
    ASSUME ModesInv, Notes, Noted, [Next]_vars
    PROVE  Noted'
<1> USE PresenceAssumption, ClientsAssumption DEF Threads, Conns
<1> DEFINE By(c) == chosen[c].by
<1>t. /\ Numbered /\ Chosen /\ Generations /\ pc \in [Threads -> ConnPcs \cup {"idle"}]
      /\ owner \in [Conns -> Clients \cup {Nobody}] /\ pres \in [Clients -> Entries]
      /\ asks \in [Threads -> [mode : Modes, force : BOOLEAN]]
      /\ chosen \in [Clients -> [by : Threads \cup {Nobody}, mode : Modes]]
      /\ fails \in Nat
  BY DEF ModesInv, PresenceTypeOK
<1>f. (live' => live) /\ (up' => up) /\ (fails' = 0 => fails = 0)
  BY StepFacts
<1>h. ASSUME NEW k \in Conns, Holds(k)'
      PROVE  /\ owner'[k] = owner[k] /\ owner[k] \in Clients
             /\ Holds(k) \/ (pc[k] = "open" /\ pc'[k] \in {"timer", "leave"} /\ up)
  BY <1>h, HoldsBefore
<1>b. \A c \in Clients : By(c) \in Conns => pc[By(c)] # "unused" /\ owner[By(c)] = c
  BY <1>t DEF Chosen
\* A step in which no mode, and no note, changes.
<1>q. ASSUME UNCHANGED <<excModes, chosen>>,
             \A c \in Clients : pres'[c].excSet = pres[c].excSet,
             \A k \in Conns : pc[k] # "unused" => (pc'[k] = "note" <=> pc[k] = "note"),
             \A k \in Conns :
                pc'[k] = "last" /\ live' /\ Holds(k)' /\ fails' = 0 /\ By(owner[k]) \in Conns
                => pc[k] = "last" \/ excModes[owner[k]] = "none"
      PROVE  Noted'
  <2>1. ASSUME NEW c \in Clients, live', fails' = 0, up' \/ \E k \in Conns : owner'[k] = c /\ Holds(k)',
               chosen'[c].by \in Conns, pc'[chosen'[c].by] # "note", ~pres'[c].excSet
        PROVE  excModes'[c] = "none"
    <3>1. up \/ \E k \in Conns : owner[k] = c /\ Holds(k)
      BY <1>f, <1>h, <2>1
    <3>2. By(c) \in Conns /\ pc[By(c)] # "note"
      BY <1>b, <1>q, <2>1
    <3> QED
      BY <1>f, <1>q, <2>1, <3>1, <3>2 DEF Noted
  <2>2. ASSUME NEW k \in Conns, live', fails' = 0, Holds(k)', pc'[k] = "last", chosen'[owner'[k]].by \in Conns
        PROVE  excModes'[owner'[k]] = "none"
    BY <1>f, <1>h, <1>q, <2>2 DEF Noted
  <2> QED
    BY <2>1, <2>2 DEF Noted
<1>6. ASSUME NEW c \in Editors, Connect(c) PROVE Noted'
  <2>1. UNCHANGED <<excModes, chosen>> /\ \A d \in Clients : pres'[d].excSet = pres[d].excSet
    BY <1>t, <1>6 DEF Connect
  <2>2. \A k \in Conns : pc[k] # "unused" => pc'[k] = pc[k]
    BY <1>t, <1>6, ConnsFinite DEF Connect, Numbered
  <2>3. \A k \in Conns : pc'[k] = "last" => pc[k] = "last"
    BY <1>t, <1>6 DEF Connect
  <2> QED
    BY <1>q, <2>1, <2>2, <2>3
<1>7. ASSUME NEW k \in Conns, NEW restart \in BOOLEAN, Leave(k, restart) PROVE Noted'
  <2>1. /\ UNCHANGED <<excModes, chosen, owner, fails>> /\ pc[k] = "open"
        /\ pc'[k] \in {"gone", "timer", "leave"} /\ \A l \in Conns : l # k => pc'[l] = pc[l]
    BY <1>t, <1>7 DEF Leave
  <2>2. owner[k] \in Clients /\ pres[owner[k]] \in Entries
    BY <1>t, <2>1 DEF Numbered
  <2>3. \A d \in Clients : d # owner[k] => pres'[d] = pres[d]
    BY <1>t, <1>7, <2>2 DEF Leave
  <2>4. \/ pres'[owner[k]] = [pres[owner[k]] EXCEPT !.conns = @ - 1]
        \/ pres'[owner[k]] = NoEntry /\ ~(live /\ up) /\ live' = live /\ up' = up
    BY <1>t, <1>7, <2>2 DEF Leave, leaseVars
  <2>5. CASE pres'[owner[k]] = [pres[owner[k]] EXCEPT !.conns = @ - 1]
    <3>1. pres'[owner[k]].excSet = pres[owner[k]].excSet
      BY <2>2, <2>5 DEF Entries
    <3> QED
      BY <1>q, <2>1, <2>3, <3>1
  <2>6. CASE pres'[owner[k]] = NoEntry /\ ~(live /\ up) /\ live' = live /\ up' = up
    <3>1. \A l \in Conns : Holds(l)' => gen'[l] > 0
      BY ModesStep DEF ModesInv, Generations, Holds
    <3>2. \A l \in Conns : owner'[l] = owner[k] => ~Holds(l)'
      BY <2>1, <2>6, <3>1 DEF Holds, NoEntry
    <3>3. ASSUME NEW c \in Clients, live', fails' = 0, up' \/ \E l \in Conns : owner'[l] = c /\ Holds(l)',
                 chosen'[c].by \in Conns, pc'[chosen'[c].by] # "note", ~pres'[c].excSet
          PROVE  excModes'[c] = "none"
      <4>1. c # owner[k]
        BY <2>6, <3>2, <3>3
      <4>2. up \/ \E l \in Conns : owner[l] = c /\ Holds(l)
        BY <1>f, <1>h, <3>3
      <4>3. By(c) \in Conns /\ pc[By(c)] # "note"
        BY <2>1, <3>3
      <4>4. ~pres[c].excSet
        BY <2>3, <3>3, <4>1
      <4> QED
        BY <1>f, <2>1, <3>3, <4>2, <4>3, <4>4 DEF Noted
    <3>4. \A l \in Conns : pc'[l] = "last" => pc[l] = "last"
      BY <2>1
    <3>5. ASSUME NEW l \in Conns, live', fails' = 0, Holds(l)', pc'[l] = "last", chosen'[owner'[l]].by \in Conns
          PROVE  excModes'[owner'[l]] = "none"
      BY <1>f, <1>h, <2>1, <3>4, <3>5 DEF Noted
    <3> QED
      BY <3>3, <3>5 DEF Noted
  <2> QED
    BY <2>4, <2>5, <2>6
<1>8. ASSUME NEW k \in Conns, GraceEnds(k) \/ SetEditorBreakpoints(k) \/ LeaveBreakpoints(k) PROVE Noted'
  <2>1. /\ UNCHANGED <<excModes, chosen, pres>>
        /\ \A l \in Conns : (pc'[l] = "note" <=> pc[l] = "note") /\ (pc'[l] = "last" => pc[l] = "last")
    BY <1>t, <1>8 DEF GraceEnds, SetEditorBreakpoints, LeaveBreakpoints
  <2> QED
    BY <1>q, <2>1
<1>9. ASSUME NEW k \in Conns, ExceptionsSet(k) PROVE Noted'
  <2>1. /\ UNCHANGED <<excModes, chosen, owner>> /\ pc[k] = "note"
        /\ pc'[k] = "open" /\ \A l \in Conns : l # k => pc'[l] = pc[l]
    BY <1>t, <1>9 DEF ExceptionsSet
  <2>2. owner[k] \in Clients /\ pres[owner[k]] \in Entries
    BY <1>t, <2>1 DEF Numbered
  <2>3. \A d \in Clients : d # owner[k] => pres'[d] = pres[d]
    BY <1>t, <1>9, <2>2 DEF ExceptionsSet
  <2>4. pres'[owner[k]].excSet = (asks[k].mode # "none")
    BY <1>t, <1>9, <2>2 DEF ExceptionsSet, Entries
  <2>5. ASSUME NEW c \in Clients, live', fails' = 0, up' \/ \E l \in Conns : owner'[l] = c /\ Holds(l)',
               chosen'[c].by \in Conns, pc'[chosen'[c].by] # "note", ~pres'[c].excSet
        PROVE  excModes'[c] = "none"
    <3>1. CASE c = owner[k]
      <4>1. By(c) = k /\ chosen[c].mode = asks[k].mode
        BY <2>1, <2>5, <3>1 DEF Notes
      <4>2. excModes[c] = chosen[c].mode
        BY <1>t, <2>1, <4>1 DEF Chosen, OpenPcs
      <4> QED
        BY <2>1, <2>4, <2>5, <3>1, <4>1, <4>2
    <3>2. CASE c # owner[k]
      <4>1. up \/ \E l \in Conns : owner[l] = c /\ Holds(l)
        BY <1>f, <1>h, <2>5
      <4>2. By(c) \in Conns /\ pc[By(c)] # "note"
        BY <1>b, <2>1, <2>5, <3>2
      <4>3. ~pres[c].excSet
        BY <2>3, <2>5, <3>2
      <4> QED
        BY <1>f, <2>1, <2>5, <4>1, <4>2, <4>3 DEF Noted
    <3> QED
      BY <3>1, <3>2
  <2>6. ASSUME NEW l \in Conns, live', fails' = 0, Holds(l)', pc'[l] = "last", chosen'[owner'[l]].by \in Conns
        PROVE  excModes'[owner'[l]] = "none"
    BY <1>f, <1>h, <2>1, <2>6 DEF Noted
  <2> QED
    BY <2>5, <2>6 DEF Noted
<1>10. ASSUME NEW k \in Conns, LeaveCheckMode(k) PROVE Noted'
  <2>1. /\ UNCHANGED <<excModes, chosen, pres, owner, live, fails, gen>> /\ pc[k] = "check"
        /\ pc'[k] \in {"reset", "last"} /\ \A l \in Conns : l # k => pc'[l] = pc[l]
        /\ pc'[k] = "last" => ~Left(k) \/ ~pres[owner[k]].excSet \/ excModes[owner[k]] = "none"
    BY <1>t, <1>10 DEF LeaveCheckMode, leaseVars
  <2>2. ASSUME pc'[k] = "last", live', Holds(k)', fails' = 0, By(owner[k]) \in Conns
        PROVE  excModes[owner[k]] = "none"
    <3>1. Holds(k) /\ owner[k] \in Clients
      BY <1>h, <2>1, <2>2
    <3>2. live /\ Left(k) /\ \A l \in Conns : owner[l] = owner[k] => pc[l] \notin OpenPcs
      BY <1>f, <2>2, <3>1, HoldsLeft
    <3>3. pc[By(owner[k])] # "note"
      BY <1>b, <2>2, <3>1, <3>2 DEF OpenPcs
    <3>4. CASE ~pres[owner[k]].excSet
      BY <1>f, <2>2, <3>1, <3>2, <3>3, <3>4 DEF Noted
    <3> QED
      BY <2>1, <2>2, <3>2, <3>4
  <2> QED
    BY <1>q, <2>1, <2>2
<1>11. ASSUME NEW k \in Conns, ResetRefused(k) PROVE Noted'
  <2>1. /\ UNCHANGED <<excModes, chosen, pres>>
        /\ pc[k] = "reset" /\ \A l \in Conns : l # k => pc'[l] = pc[l]
        /\ pc'[k] = "last" /\ ~(live /\ Left(k))
    BY <1>t, <1>11 DEF ResetRefused, Guard
  <2>2. ~(live' /\ Holds(k)')
    BY <1>f, <1>h, <2>1, HoldsLeft
  <2> QED
    BY <1>q, <2>1, <2>2
<1>12. ASSUME NEW k \in Conns, LeaveLast(k) PROVE Noted'
  <2>1. /\ UNCHANGED <<excModes, chosen, owner>> /\ pc[k] = "last" /\ pc'[k] = "gone"
        /\ \A l \in Conns : l # k => pc'[l] = pc[l]
    BY <1>t, <1>12 DEF LeaveLast
  <2>2. \/ pres' = pres
        \/ Left(k) /\ pres' = [pres EXCEPT ![owner[k]] = NoEntry]
    BY <1>12 DEF LeaveLast, LeaveAll
  <2>3. CASE pres' = pres
    BY <1>q, <2>1, <2>3
  <2>4. CASE Left(k) /\ pres' = [pres EXCEPT ![owner[k]] = NoEntry]
    <3>1. live /\ Holds(k)
      BY <2>1, <2>4 DEF Left, Holds, Leaving
    <3>2. fails = 0 /\ By(owner[k]) \in Conns => excModes[owner[k]] = "none"
      BY <2>1, <3>1 DEF Noted
    <3>3. \A d \in Clients : d # owner[k] => pres'[d] = pres[d]
      BY <1>t, <2>4
    <3>5. ASSUME NEW c \in Clients, live', fails' = 0, up' \/ \E l \in Conns : owner'[l] = c /\ Holds(l)',
                 chosen'[c].by \in Conns, pc'[chosen'[c].by] # "note", ~pres'[c].excSet
          PROVE  excModes'[c] = "none"
      <4>1. up \/ \E l \in Conns : owner[l] = c /\ Holds(l)
        BY <1>f, <1>h, <3>5
      <4>2. By(c) \in Conns /\ pc[By(c)] # "note"
        BY <2>1, <3>5
      <4>3. CASE c = owner[k]
        BY <1>f, <2>1, <3>2, <3>5, <4>2, <4>3
      <4>4. CASE c # owner[k]
        BY <1>f, <2>1, <3>3, <3>5, <4>1, <4>2, <4>4 DEF Noted
      <4> QED
        BY <4>3, <4>4
    <3>6. ASSUME NEW l \in Conns, live', fails' = 0, Holds(l)', pc'[l] = "last", chosen'[owner'[l]].by \in Conns
          PROVE  excModes'[owner'[l]] = "none"
      BY <1>f, <1>h, <2>1, <3>6 DEF Noted
    <3> QED
      BY <3>5, <3>6 DEF Noted
  <2> QED
    BY <2>2, <2>3, <2>4
<1>13. ASSUME NEW t \in Threads, NEW mode \in Modes, NEW force \in BOOLEAN, ModeBegin(t, mode, force)
       PROVE  Noted'
  <2>1. /\ UNCHANGED <<excModes, chosen, pres>>
        /\ \A l \in Conns : (pc'[l] = "note" <=> pc[l] = "note") /\ (pc'[l] = "last" => pc[l] = "last")
    BY <1>t, <1>13 DEF ModeBegin, MayAsk
  <2> QED
    BY <1>q, <2>1
<1>14. ASSUME NEW t \in Threads, AdapterTakes(t) PROVE Noted'
  <2>1. /\ UNCHANGED <<excModes, chosen, pres>>
        /\ \A l \in Conns : (pc'[l] = "note" <=> pc[l] = "note") /\ (pc'[l] = "last" => pc[l] = "last")
    BY <1>t, <1>14 DEF AdapterTakes
  <2> QED
    BY <1>q, <2>1
<1>15. ASSUME NEW t \in Threads, ModeFails(t) PROVE Noted'
  BY <1>t, <1>15 DEF ModeFails, Noted
<1>16. ASSUME NEW t \in Threads, ModeDone(t) PROVE Noted'
  <2>1. /\ \A k \in Conns : k # t => pc'[k] = pc[k]
        /\ UNCHANGED <<owner, pres>> /\ pc[t] \in {"taken", "retaken"}
    BY <1>t, <1>16 DEF ModeDone
  <2>2. \A d \in Clients :
          /\ chosen'[d] = IF pc[t] = "retaken" THEN chosen[d]
                          ELSE IF d = Who(t) THEN [by |-> t, mode |-> asks[t].mode]
                          ELSE IF asks[t].force THEN Nothing ELSE chosen[d]
          /\ excModes'[d] = IF d = Who(t) THEN asks[t].mode
                            ELSE IF asks[t].force THEN "none" ELSE excModes[d]
    <3>1. plan[t] = WithMode(Who(t), asks[t].mode, asks[t].force)
      BY <2>1 DEF ModesInv, Syncs, Asking
    <3> QED
      BY <1>16, <2>1, <3>1 DEF ModeDone, WithMode
  <2>3. /\ t \in Conns /\ pc[t] = "taken" => pc'[t] = "note"
        /\ pc[t] = "retaken" => t \in Conns /\ pc'[t] = "last" /\ asks[t].mode = "none" /\ ~asks[t].force
    <3>1. pc[t] = "retaken" => t \in Conns
      BY <1>t DEF Numbered
    <3>2. pc[t] = "retaken" => asks[t].mode = "none" /\ ~asks[t].force
      BY DEF ModesInv, Syncs
    <3> QED
      BY <1>t, <1>16, <3>1, <3>2 DEF ModeDone, Back
  <2>4. Nobody \notin Conns
    OBVIOUS
  \* The mode of a client is its own, is cleared, or is as it was.
  <2>5. ASSUME NEW c \in Clients, chosen'[c].by \in Conns
        PROVE  \/ excModes'[c] = "none"
               \/ c = Who(t) /\ pc[t] = "taken" /\ chosen'[c].by = t /\ t \in Conns
               \/ c # Who(t) /\ chosen'[c] = chosen[c] /\ excModes'[c] = excModes[c]
    BY <2>1, <2>2, <2>3, <2>4, <2>5 DEF Nothing
  <2>6. ASSUME NEW c \in Clients, live', fails' = 0, up' \/ \E l \in Conns : owner'[l] = c /\ Holds(l)',
               chosen'[c].by \in Conns, pc'[chosen'[c].by] # "note", ~pres'[c].excSet
        PROVE  excModes'[c] = "none"
    <3>1. CASE c = Who(t) /\ pc[t] = "taken" /\ chosen'[c].by = t /\ t \in Conns
      BY <2>3, <2>6, <3>1
    <3>2. CASE c # Who(t) /\ chosen'[c] = chosen[c] /\ excModes'[c] = excModes[c]
      <4>1. up \/ \E l \in Conns : owner[l] = c /\ Holds(l)
        BY <1>f, <1>h, <2>6
      <4>2. By(c) \in Conns /\ By(c) # t
        BY <1>b, <2>6, <3>2 DEF Who
      <4> QED
        BY <1>f, <2>1, <2>6, <3>2, <4>1, <4>2 DEF Noted
    <3> QED
      BY <2>5, <2>6, <3>1, <3>2
  <2>7. ASSUME NEW l \in Conns, live', fails' = 0, Holds(l)', pc'[l] = "last", chosen'[owner'[l]].by \in Conns
        PROVE  excModes'[owner'[l]] = "none"
    <3>1. Holds(l) /\ owner'[l] = owner[l] /\ owner[l] \in Clients
      BY <1>h, <2>7
    <3>2. CASE owner[l] = Who(t) /\ pc[t] = "taken" /\ t \in Conns
      BY <3>1, <3>2, HoldsLeft DEF Who, OpenPcs
    <3>3. CASE owner[l] # Who(t) /\ chosen'[owner[l]] = chosen[owner[l]] /\ excModes'[owner[l]] = excModes[owner[l]]
      <4>1. l # t
        BY <3>3 DEF Who
      <4> QED
        BY <1>f, <2>1, <2>7, <3>1, <3>3, <4>1 DEF Noted
    <3> QED
      BY <2>5, <2>7, <3>1, <3>2, <3>3
  <2> QED
    BY <2>6, <2>7 DEF Noted
<1>17. CASE OtherStep
  <2>1. UNCHANGED <<pc, excModes, chosen, pres>>
    BY <1>17 DEF OtherStep, ClientLease, SessionEnds, DaemonStops, presenceVars, vars
  <2> QED
    BY <1>q, <2>1
<1> QED
  BY <1>6, <1>7, <1>8, <1>9, <1>10, <1>11, <1>12, <1>13, <1>14, <1>15, <1>16, <1>17 DEF Next, OtherStep

\* Every step keeps the cleanups' invariant.
LEMMA CleanupStep ==
    ASSUME CleanupInv, LeaseInv', [Next]_vars, Overlap = FALSE
    PROVE  CleanupInv'
  BY ModesStep, BreakpointsStep, NotesStep, NotedStep DEF CleanupInv

\* A cleanup that is past a step has taken what that step takes (leave), with
\* one connection of a client setting its mode at a time.
THEOREM CleanupsKept == (Overlap = FALSE) => (Spec => []CleanupInv)
<1>1. LeaseSpec => []LeaseInv
  BY LeaseInvariant
<1>2. Init /\ LeaseInv => CleanupInv
  <2> USE PresenceAssumption, ClientsAssumption DEF Threads, Conns
  <2> SUFFICES ASSUME Init, LeaseInv PROVE CleanupInv
    OBVIOUS
  <2>1. \A k \in Conns : pc[k] = "unused"
    BY DEF Init
  <2>2. \A k \in Conns : ~Holds(k)
    BY <2>1 DEF Holds, Leaving
  <2>3. \A c \in Clients : excModes[c] = "none"
    BY DEF Init
  <2>4. BreakpointsGone /\ Notes /\ Noted
    BY <2>1, <2>2, <2>3 DEF BreakpointsGone, Notes, Noted
  <2> QED
    BY <2>4, ModesInit DEF CleanupInv
<1>3. ASSUME Overlap = FALSE
      PROVE  CleanupInv /\ LeaseInv' /\ [Next]_vars => CleanupInv'
  BY <1>3, CleanupStep
<1>4. ASSUME Overlap = FALSE
      PROVE  Spec => []CleanupInv
  <2>1. CleanupInv /\ LeaseInv' /\ [Next]_vars => CleanupInv'
    BY <1>3, <1>4
  <2> QED
    BY <1>1, <1>2, <2>1, PresenceLease, PTL DEF Spec
<1> QED
  BY <1>4

\* One step of a cleanup's invariant: the end of a leaving takes all.
LEMMA TakesAll ==
    ASSUME CleanupInv, [Next]_vars, NEW c \in Clients,
           pres[c] # NoEntry, pres[c].conns = 0, pres'[c] = NoEntry
    PROVE  /\ ~ebps'[c] /\ holder' # c
           /\ \A i \in DOMAIN requests' : requests'[i] # c
           /\ (chosen[c].by \in Conns /\ fails = 0) => excModes'[c] = "none"
<1> USE PresenceAssumption, ClientsAssumption DEF Threads, Conns
<1>t. /\ ModesInv /\ Numbered /\ Counted /\ pc \in [Threads -> ConnPcs \cup {"idle"}]
      /\ pres \in [Clients -> Entries] /\ ebps \in [Clients -> BOOLEAN]
  BY DEF CleanupInv, ModesInv, PresenceTypeOK
<1>1. \E k \in Conns : LeaveLast(k) /\ Left(k) /\ owner[k] = c
  <2>1. ASSUME NEW d \in Editors, Connect(d) PROVE FALSE
    <3>1. pres'[c] = pres[c] \/ pres'[c].gen = connGen + 1
      BY <1>t, <2>1 DEF Connect
    <3> QED
      BY <3>1, ConnsFinite DEF NoEntry
  <2>2. ASSUME NEW k \in Conns, NEW restart \in BOOLEAN, Leave(k, restart) PROVE FALSE
    <3>1. pc[k] = "open" /\ owner[k] \in Clients /\ pres[owner[k]].conns > 0
      BY <1>t, <2>2, NoneOpen DEF Leave, Numbered, OpenPcs
    <3>2. owner[k] # c
      BY <3>1
    <3>3. pres'[c] = pres[c]
      BY <1>t, <2>2, <3>2 DEF Leave
    <3> QED
      BY <3>3
  <2>3. ASSUME NEW k \in Conns, ExceptionsSet(k) PROVE FALSE
    <3>1. pc[k] = "note" /\ owner[k] \in Clients /\ pres[owner[k]].conns > 0
      BY <1>t, <2>3, NoneOpen DEF ExceptionsSet, Numbered, OpenPcs
    <3>2. owner[k] # c
      BY <3>1
    <3>3. pres'[c] = pres[c]
      BY <1>t, <2>3, <3>2 DEF ExceptionsSet
    <3> QED
      BY <3>3
  <2>4. ASSUME NEW k \in Conns, LeaveLast(k) PROVE Left(k) /\ owner[k] = c
    BY <1>t, <2>4 DEF LeaveLast, LeaveAll
  <2>5. ASSUME NEW k \in Conns, \/ GraceEnds(k) \/ SetEditorBreakpoints(k) \/ LeaveBreakpoints(k)
                                \/ LeaveCheckMode(k) \/ ResetRefused(k)
        PROVE  FALSE
    BY <2>5 DEF GraceEnds, SetEditorBreakpoints, LeaveBreakpoints, LeaveCheckMode, ResetRefused
  <2>6. ASSUME NEW t \in Threads, ModeStep(t) PROVE FALSE
    BY <2>6 DEF ModeStep, ModeBegin, AdapterTakes, ModeFails, ModeDone
  <2>7. CASE OtherStep
    BY <2>7 DEF OtherStep, ClientLease, SessionEnds, DaemonStops, presenceVars, vars
  <2> QED
    BY <2>1, <2>2, <2>3, <2>4, <2>5, <2>6, <2>7 DEF Next, ModeStep, OtherStep
<1>2. PICK k \in Conns : LeaveLast(k) /\ Left(k) /\ owner[k] = c
  BY <1>1
<1>3. /\ pc[k] = "last" /\ UNCHANGED <<ebps, excModes>> /\ LeaveLease(c) /\ live
  BY <1>2 DEF LeaveLast, LeaveAll, LeaveLease
<1>4. Holds(k)
  BY <1>2, <1>3 DEF Left, Holds, Leaving
<1>5. ~ebps'[c]
  BY <1>2, <1>3, <1>4 DEF CleanupInv, BreakpointsGone
<1>6. (chosen[c].by \in Conns /\ fails = 0) => excModes'[c] = "none"
  BY <1>2, <1>3, <1>4 DEF CleanupInv, Noted
<1>7. holder' # c
  BY <1>3 DEF LeaveLease, SetHolder
<1>8. \A i \in DOMAIN requests' : requests'[i] # c
  <2>1. requests \in Seq(Clients) /\ Injective(requests)
    BY DEF CleanupInv, LeaseInv, LeaseTypeOK, RequestsAddressHolder, Injective
  <2>2. \A i \in DOMAIN Without(requests, c) : Without(requests, c)[i] # c
    BY <2>1, WithoutProperties
  <2>3. requests' = <<>> \/ requests' = Without(requests, c)
    BY <1>3 DEF LeaveLease, SetHolder
  <2> QED
    BY <2>2, <2>3
<1> QED
  BY <1>5, <1>6, <1>7, <1>8

\* While a grace time runs for the newest leaving, no other cleanup of the
\* client holds, and a cleanup that does not hold takes nothing.
LEMMA GraceKeeps ==
    ASSUME ModesInv, [Next]_vars, NEW k \in Conns,
           pc[k] = "timer", pc'[k] = "timer", gen[k] = pres[owner[k]].gen
    PROVE  /\ pres'[owner[k]] # NoEntry
           /\ ebps[owner[k]] => ebps'[owner[k]]
           /\ holder = owner[k] /\ holder' # owner[k] => moved'.action # "leave"
<1> USE PresenceAssumption, ClientsAssumption DEF Threads, Conns
<1>t. /\ Numbered /\ Generations /\ pc \in [Threads -> ConnPcs \cup {"idle"}]
      /\ pres \in [Clients -> Entries] /\ ebps \in [Clients -> BOOLEAN]
      /\ owner \in [Conns -> Clients \cup {Nobody}]
  BY DEF ModesInv, PresenceTypeOK
<1>c. PICK c \in Clients : c = owner[k]
  BY <1>t DEF Numbered
<1>1. Holds(k) /\ pres[c].conns = 0 /\ pres[c].gen > 0
  BY <1>t, <1>c DEF Holds, Leaving, Generations
<1>2. \A l \in Conns : owner[l] = c => pc[l] \notin OpenPcs
  BY <1>1, <1>c, HoldsLeft
<1>3. \A l \in Conns : pc[l] \in {"leave", "last"} /\ owner[l] = c => ~Left(l)
  BY <1>1, <1>c, OneHolds DEF Leaving
<1>4. ASSUME UNCHANGED <<pres, ebps, holder>>
      PROVE  pres'[c] # NoEntry /\ (ebps[c] => ebps'[c]) /\ holder' = holder
  BY <1>1, <1>4 DEF NoEntry
<1>5. ASSUME NEW d \in Editors, Connect(d)
      PROVE  pres'[c] # NoEntry /\ (ebps[c] => ebps'[c]) /\ holder' = holder
  <2>1. UNCHANGED <<ebps, holder>> /\ (pres'[c] = pres[c] \/ pres'[c].gen = connGen + 1)
    BY <1>t, <1>5 DEF Connect, leaseVars
  <2> QED
    BY <1>1, <2>1, ConnsFinite DEF NoEntry
<1>6. ASSUME NEW l \in Conns, ConnStep(l)
      PROVE  /\ pres'[c] # NoEntry /\ (ebps[c] => ebps'[c])
             /\ holder = c /\ holder' # c => moved'.action # "leave"
  <2>1. CASE \E restart \in BOOLEAN : Leave(l, restart)
    <3>1. owner[l] # c /\ UNCHANGED <<ebps, holder>>
      BY <1>2, <2>1 DEF Leave, leaseVars, OpenPcs
    <3>2. pres'[c] = pres[c]
      BY <1>t, <2>1, <3>1 DEF Leave
    <3> QED
      BY <1>1, <3>1, <3>2 DEF NoEntry
  <2>2. CASE ExceptionsSet(l)
    <3>1. owner[l] # c /\ UNCHANGED <<ebps, holder>>
      BY <1>2, <2>2 DEF ExceptionsSet, leaseVars, OpenPcs
    <3>2. pres'[c] = pres[c]
      BY <1>t, <2>2, <3>1 DEF ExceptionsSet
    <3> QED
      BY <1>1, <3>1, <3>2 DEF NoEntry
  <2>3. CASE GraceEnds(l) \/ LeaveCheckMode(l) \/ ResetRefused(l)
    <3>1. UNCHANGED <<pres, ebps, holder>>
      BY <2>3 DEF GraceEnds, LeaveCheckMode, ResetRefused, leaseVars
    <3> QED
      BY <1>4, <3>1
  <2>4. CASE SetEditorBreakpoints(l)
    <3>1. UNCHANGED <<pres, holder>> /\ (ebps[c] => ebps'[c])
      BY <1>t, <2>4 DEF SetEditorBreakpoints, leaseVars
    <3> QED
      BY <1>1, <3>1 DEF NoEntry
  <2>5. CASE LeaveBreakpoints(l)
    <3>1. UNCHANGED <<pres, holder>> /\ (owner[l] = c => ~Left(l))
      BY <1>3, <2>5 DEF LeaveBreakpoints, leaseVars
    <3>2. ebps[c] => ebps'[c]
      BY <1>t, <2>5, <3>1 DEF LeaveBreakpoints
    <3> QED
      BY <1>1, <3>1, <3>2 DEF NoEntry
  <2>6. CASE LeaveLast(l)
    <3>1. CASE ~Left(l)
      BY <1>4, <2>6, <3>1 DEF LeaveLast, leaseVars
    <3>2. CASE Left(l)
      <4>1. owner[l] # c /\ ebps' = ebps
        BY <1>3, <2>6, <3>2 DEF LeaveLast
      <4>2. pres'[c] = pres[c]
        BY <1>t, <2>6, <3>2, <4>1 DEF LeaveLast, LeaveAll
      <4>3. holder = c => holder' = c
        BY <2>6, <3>2, <4>1 DEF LeaveLast, LeaveAll, LeaveLease
      <4> QED
        BY <1>1, <4>1, <4>2, <4>3 DEF NoEntry
    <3> QED
      BY <3>1, <3>2
  <2> QED
    BY <1>6, <2>1, <2>2, <2>3, <2>4, <2>5, <2>6 DEF ConnStep
<1>7. ASSUME NEW t \in Threads, ModeStep(t)
      PROVE  pres'[c] # NoEntry /\ (ebps[c] => ebps'[c]) /\ holder' = holder
  <2>1. UNCHANGED <<pres, ebps, holder>>
    BY <1>7 DEF ModeStep, ModeBegin, AdapterTakes, ModeFails, ModeDone, leaseVars
  <2> QED
    BY <1>4, <2>1
<1>8. CASE OtherStep
  <2>1. UNCHANGED <<pres, ebps>>
    BY <1>8 DEF OtherStep, ClientLease, SessionEnds, DaemonStops, presenceVars, vars
  <2>2. holder' # holder => moved'.action # "leave"
    <3>1. CASE ClientLease
      <4>1. PICK d \in Clients : \/ TakeLease(d, FALSE)
                                 \/ \E to \in Clients : GrantLease(d, to, FALSE)
                                 \/ ReleaseLease(d) \/ Acquire(d) \/ RequestLease(d)
        BY <3>1 DEF ClientLease
      <4>2. CASE TakeLease(d, FALSE)
        BY <4>2 DEF TakeLease, SetHolder
      <4>3. CASE \E to \in Clients : GrantLease(d, to, FALSE)
        BY <4>3 DEF GrantLease, SetHolder
      <4>4. CASE ReleaseLease(d)
        BY <4>4 DEF ReleaseLease, SetHolder
      <4>5. CASE Acquire(d)
        BY <4>5 DEF Acquire, SetHolder
      <4>6. CASE RequestLease(d)
        BY <4>6 DEF RequestLease
      <4> QED
        BY <4>1, <4>2, <4>3, <4>4, <4>5, <4>6
    <3>2. CASE SessionEnds \/ DaemonStops \/ UNCHANGED vars
      BY <3>2 DEF SessionEnds, EndLease, DaemonStops, leaseVars, vars
    <3> QED
      BY <1>8, <3>1, <3>2 DEF OtherStep
  <2> QED
    BY <1>1, <1>c, <2>1, <2>2 DEF NoEntry
<1> QED
  BY <1>c, <1>5, <1>6, <1>7, <1>8 DEF Next, ConnStep, ModeStep, OtherStep

\* A cleanup takes all and only what it should (leave, cleanUpLeft), as long
\* as one connection of a client at a time sets its mode.
THEOREM CleanupIsExact == (Overlap = FALSE) => (Spec => CleanupExact)
<1>1. CleanupInv /\ [Next]_vars =>
        [ \A c \in Clients :
            (pres[c] # NoEntry /\ pres[c].conns = 0 /\ pres'[c] = NoEntry)
            => /\ ~ebps'[c] /\ holder' # c
               /\ \A i \in DOMAIN requests' : requests'[i] # c
               /\ (chosen[c].by \in Conns /\ fails = 0) => excModes'[c] = "none" ]_vars
  BY TakesAll
<1>2. ModesInv /\ [Next]_vars =>
        [ \A k \in Conns :
            (pc[k] = "timer" /\ pc'[k] = "timer" /\ gen[k] = pres[owner[k]].gen)
            => LET c == owner[k]
               IN  /\ pres'[c] # NoEntry
                   /\ ebps[c] => ebps'[c]
                   /\ holder = c /\ holder' # c => moved'.action # "leave" ]_vars
  BY GraceKeeps
<1>3. ASSUME Overlap = FALSE PROVE Spec => []CleanupInv
  BY <1>3, CleanupsKept
<1>4. ASSUME Overlap = FALSE PROVE Spec => CleanupExact
  <2>1. Spec => []CleanupInv
    BY <1>3, <1>4
  <2> QED
    BY <1>1, <1>2, <2>1, ModesKept, PTL DEF Spec, CleanupExact, LeavingTakesAll, GraceHonoured
<1> QED
  BY <1>4

----------------------------------------------------------------------------
(***************************************************************************)
(* No read of a stopped program is older than its request, for any number  *)
(* of readers, stops and changes (internal/session/session.go's capture,   *)
(* evalset.go's markStale).                                                *)
(*                                                                         *)
(* The argument: what an answer or a shown stop told of is never newer     *)
(* than the program's variables, so a read that asks the adapter is fresh. *)
(* One that is answered from the cached capture is fresh because a capture *)
(* that may be cached has everything that is known: a stop makes it one of *)
(* an earlier stop, and a change marks it stale, which it can not do while *)
(* a capture is being fetched (captureMu).                                 *)
(***************************************************************************)

Captures == [stops : Nat, version : Nat]
Places == {"idle", "asked", "capture", "stack", "locals", "store", "answered", "failed"}
Requests ==
    [kind : {"none", "changes", "snapshot", "vars", "forward"}, at : Places, stops : Nat, frame : Nat,
     version : Nat, floor : Nat, sawStop : BOOLEAN]

InspectTypeOK ==
    /\ halted \in BOOLEAN /\ epoch \in Nat /\ version \in Nat
    /\ stopped \in BOOLEAN /\ stops \in Nat
    /\ cur \in Captures \cup {None} /\ prev \in Captures \cup {None}
    /\ curStale \in BOOLEAN /\ captureMu \in Readers \cup {None} /\ execMu \in BOOLEAN
    /\ rd \in [Readers -> Requests]
    /\ wr \in {"idle", "frame", "sent", "applied", "refused"} /\ sets \in Nat /\ known \in Nat

\* The captures are of stops in their order, and a capture that may be
\* answered has everything that is known.
CapturesInOrder ==
    /\ cur # None => cur.stops <= stops
    /\ prev # None => cur # None /\ prev.stops < cur.stops
    /\ Cached => cur.version >= known

\* A reader that fetches a capture holds captureMu, one that has fetched it
\* has everything that is known, unless the program stopped again.
FetchesLocked(r) ==
    /\ rd[r].at \in {"stack", "locals", "store"} /\ rd[r].kind \notin Direct
         => captureMu = r /\ rd[r].stops <= stops
    /\ rd[r].at = "store"
         => rd[r].kind \notin Direct /\ (rd[r].stops = stops => rd[r].version >= known)

\* What a request must see is known, and its answer has it.
Fresh(r) ==
    /\ rd[r].floor <= known
    /\ rd[r].at \in {"store", "answered"} => rd[r].version >= rd[r].floor

InspectInv ==
    /\ InspectTypeOK
    /\ known <= version
    /\ CapturesInOrder
    /\ \A r \in Readers : FetchesLocked(r) /\ Fresh(r)

----------------------------------------------------------------------------

\* A request that is not made has the type of one.
LEMMA IdleType == Idle \in Requests
BY DEF Idle, Requests, Places

LEMMA InitInspect == InspectInit => InspectInv
<1> SUFFICES ASSUME InspectInit PROVE InspectInv
  OBVIOUS
<1>1. InspectTypeOK
  BY IdleType DEF InspectInit, InspectTypeOK
<1>2. known <= version /\ CapturesInOrder
  BY DEF InspectInit, CapturesInOrder, Cached
<1>3. ASSUME NEW r \in Readers PROVE FetchesLocked(r) /\ Fresh(r)
  BY DEF InspectInit, FetchesLocked, Fresh, Idle
<1> QED
  BY <1>1, <1>2, <1>3 DEF InspectInv

\* A reader's step replaces its record and no other.
LEMMA PutRecord ==
    ASSUME rd \in [Readers -> Requests], NEW r \in Readers, NEW rec \in Requests, Put(r, rec)
    PROVE  /\ rd' \in [Readers -> Requests]
           /\ rd'[r] = rec
           /\ \A q \in Readers \ {r} : rd'[q] = rd[q]
BY DEF Put

\* The program and the changing request: they raise what is known only
\* together with a new stop, or with no capture in flight and the old one
\* marked stale.
LEMMA ProgramSteps ==
    ASSUME InspectInv,
           Continue \/ StopShows \/ HiddenStop \/ HiddenContinue
           \/ Set \/ Evaluate \/ ForwardExecution \/ Applies \/ MarkStale
    PROVE  InspectInv'
<1> USE DEF InspectInv, captures, adapterState
<1>1. CASE Continue
  BY <1>1 DEF Continue, InspectTypeOK, CapturesInOrder, FetchesLocked, Fresh, Cached
<1>2. CASE StopShows
  <2>1. \A r \in Readers :
            /\ rd'[r].kind = rd[r].kind /\ rd'[r].at = rd[r].at /\ rd'[r].stops = rd[r].stops
            /\ rd'[r].version = rd[r].version /\ rd'[r].floor = rd[r].floor
    BY <1>2 DEF StopShows, InspectTypeOK, Requests
  <2>2. rd' \in [Readers -> Requests]
    BY <1>2 DEF StopShows, InspectTypeOK, Requests
  <2>3. InspectTypeOK'
    BY <1>2, <2>2 DEF StopShows, InspectTypeOK
  <2>4. (known <= version)' /\ CapturesInOrder'
    BY <1>2 DEF StopShows, InspectTypeOK, CapturesInOrder, Cached, Captures
  <2>5. ASSUME NEW r \in Readers PROVE FetchesLocked(r)' /\ Fresh(r)'
    <3>1. rd[r] \in Requests /\ FetchesLocked(r) /\ Fresh(r)
      BY DEF InspectTypeOK
    <3> QED
      BY <1>2, <2>1, <3>1 DEF StopShows, InspectTypeOK, FetchesLocked, Fresh, Requests, Direct
  <2> QED
    BY <2>3, <2>4, <2>5
<1>3. CASE HiddenStop
  BY <1>3 DEF HiddenStop, InspectTypeOK, CapturesInOrder, FetchesLocked, Fresh, Cached
<1>4. CASE HiddenContinue
  BY <1>4 DEF HiddenContinue, InspectTypeOK, CapturesInOrder, FetchesLocked, Fresh, Cached
<1>5. CASE Set \/ Evaluate \/ ForwardExecution
  <2>1. /\ wr' \in {"frame", "sent", "refused"} /\ execMu' \in BOOLEAN /\ sets' \in Nat
        /\ UNCHANGED <<halted, epoch, version, stopped, stops, cur, prev, curStale, captureMu,
                       rd, known>>
    <3>1. CASE Set
      BY <3>1 DEF Set, Admit, InspectTypeOK
    <3>2. CASE ForwardExecution
      BY <3>2 DEF ForwardExecution, Admit, InspectTypeOK
    <3>3. CASE Evaluate
      BY <3>3 DEF Evaluate, InspectTypeOK
    <3> QED
      BY <1>5, <3>1, <3>2, <3>3
  <2> QED
    BY <2>1 DEF InspectTypeOK, CapturesInOrder, FetchesLocked, Fresh, Cached
<1>6. CASE Applies
  BY <1>6 DEF Applies, InspectTypeOK, CapturesInOrder, FetchesLocked, Fresh, Cached
<1>7. CASE MarkStale
  <2>1. InspectTypeOK'
    BY <1>7 DEF MarkStale, InspectTypeOK
  <2>2. known' \in {known, version} /\ known <= known' /\ known' <= version
    BY <1>7 DEF MarkStale, InspectTypeOK
  <2>3. (known <= version)' /\ CapturesInOrder'
    BY <1>7, <2>2 DEF MarkStale, InspectTypeOK, CapturesInOrder, Cached
  <2>4. ASSUME NEW r \in Readers PROVE FetchesLocked(r)' /\ Fresh(r)'
    <3>1. rd[r] \in Requests /\ FetchesLocked(r) /\ Fresh(r)
      BY DEF InspectTypeOK
    <3>2. captureMu # r
      BY <1>7, NoneAssumption DEF MarkStale, NoCapture
    <3> QED
      BY <1>7, <2>2, <3>1, <3>2 DEF MarkStale, InspectTypeOK, FetchesLocked, Fresh, Requests
  <2> QED
    BY <2>1, <2>3, <2>4
<1> QED
  BY <1>1, <1>2, <1>3, <1>4, <1>5, <1>6, <1>7

\* A step of one reader keeps the others' part, if it leaves the session as
\* it is and takes captureMu from nobody.
LEMMA OtherReaders ==
    ASSUME InspectInv, NEW r \in Readers, NEW q \in Readers, q # r,
           rd'[q] = rd[q], stops' = stops, known' = known,
           captureMu' = captureMu \/ captureMu \in {None, r}
    PROVE  FetchesLocked(q)' /\ Fresh(q)'
<1>1. FetchesLocked(q) /\ Fresh(q)
  BY DEF InspectInv
<1> QED
  BY <1>1, NoneAssumption DEF FetchesLocked, Fresh

\* A step of a reader, put together: the record it puts and the captures are
\* all there is to look at.
LEMMA ReaderStep ==
    ASSUME InspectInv, NEW r \in Readers, NEW rec \in Requests, Put(r, rec), SessionUnchanged,
           captureMu' = captureMu \/ captureMu \in {None, r},
           captureMu' \in Readers \cup {None},
           cur' \in Captures \cup {None}, prev' \in Captures \cup {None}, curStale' \in BOOLEAN,
           CapturesInOrder',
           rd'[r] = rec => FetchesLocked(r)' /\ Fresh(r)'
    PROVE  InspectInv'
<1>1. /\ rd' \in [Readers -> Requests]
      /\ rd'[r] = rec
      /\ \A q \in Readers \ {r} : rd'[q] = rd[q]
  BY PutRecord DEF InspectInv, InspectTypeOK
<1>2. InspectTypeOK' /\ (known <= version)'
  BY <1>1 DEF InspectInv, InspectTypeOK, SessionUnchanged, adapterState
<1>3. ASSUME NEW q \in Readers PROVE FetchesLocked(q)' /\ Fresh(q)'
  BY <1>1, OtherReaders DEF SessionUnchanged
<1> QED
  BY <1>1, <1>2, <1>3 DEF InspectInv

\* A reader's step that puts a record and leaves the captures alone.
LEMMA PlainReaderStep ==
    ASSUME InspectInv, NEW r \in Readers, NEW rec \in Requests, Put(r, rec), SessionUnchanged,
           UNCHANGED captures,
           captureMu' = captureMu \/ captureMu \in {None, r},
           captureMu' \in Readers \cup {None},
           rec.floor <= known,
           rec.at \in {"stack", "locals"} /\ rec.kind \notin Direct
               => captureMu' = r /\ rec.stops <= stops,
           rec.at # "store",
           rec.at = "answered" => rec.version >= rec.floor
    PROVE  InspectInv'
<1>1. CapturesInOrder'
  BY DEF InspectInv, CapturesInOrder, Cached, SessionUnchanged, captures
<1>2. rd'[r] = rec => FetchesLocked(r)' /\ Fresh(r)'
  BY DEF FetchesLocked, Fresh, SessionUnchanged
<1> QED
  BY <1>1, <1>2, ReaderStep DEF InspectInv, InspectTypeOK, captures

\* What a reader that asks is given.
LEMMA NewReadType ==
    ASSUME InspectInv, NEW kind \in {"changes", "snapshot", "vars", "forward"}, NEW frame \in Nat
    PROVE  /\ NewRead(kind, frame) \in Requests
           /\ NewRead(kind, frame).floor = known /\ NewRead(kind, frame).at = "asked"
BY DEF InspectInv, InspectTypeOK, NewRead, Idle, Requests, Places

LEMMA AskStep ==
    ASSUME InspectInv, NEW r \in Readers, NEW kind \in {"changes", "snapshot", "vars"}, Ask(r, kind)
    PROVE  InspectInv'
BY NewReadType, PlainReaderStep DEF InspectInv, InspectTypeOK, Ask

LEMMA RequireStoppedStep ==
    ASSUME InspectInv, NEW r \in Readers, RequireStopped(r)
    PROVE  InspectInv'
<1>0. rd[r] \in Requests /\ Fresh(r)
  BY DEF InspectInv, InspectTypeOK
<1>1. PICK rec \in Requests :
          /\ Put(r, rec) /\ rec.floor = rd[r].floor /\ rec.stops = rd[r].stops
          /\ rec.at \in {"failed", "capture"} \/ (rec.at = "stack" /\ rec.kind = "vars")
  BY <1>0 DEF RequireStopped, Fails, Requests, Places
<1> QED
  BY <1>0, <1>1, PlainReaderStep DEF InspectInv, InspectTypeOK, RequireStopped, Fresh, Direct

LEMMA ForwardStep ==
    ASSUME InspectInv, NEW r \in Readers, NEW frame \in 1 .. epoch, Forward(r, frame)
    PROVE  InspectInv'
<1>1. frame \in Nat
  BY DEF InspectInv, InspectTypeOK
<1> QED
  BY <1>1, NewReadType, PlainReaderStep DEF InspectInv, InspectTypeOK, Forward

LEMMA ForwardGuardedStep ==
    ASSUME InspectInv, NEW r \in Readers, ForwardGuarded(r)
    PROVE  InspectInv'
<1>0. rd[r] \in Requests /\ Fresh(r)
  BY DEF InspectInv, InspectTypeOK
<1>1. PICK rec \in Requests :
          /\ Put(r, rec) /\ rec.floor = rd[r].floor
          /\ rec.at = "failed" \/ (rec.at = "locals" /\ rec.kind = "forward")
  BY <1>0 DEF ForwardGuarded, Fails, Requests, Places
<1> QED
  BY <1>0, <1>1, PlainReaderStep
     DEF InspectInv, InspectTypeOK, ForwardGuarded, Fresh, Direct

LEMMA CaptureStep ==
    ASSUME InspectInv, NEW r \in Readers, Capture(r)
    PROVE  InspectInv'
<1>0. rd[r] \in Requests /\ Fresh(r)
  BY DEF InspectInv, InspectTypeOK
<1>1. CASE Cached
  <2>1. cur \in Captures /\ cur.version >= known
    BY <1>1 DEF InspectInv, InspectTypeOK, CapturesInOrder, Cached
  <2> DEFINE new == [rd[r] EXCEPT !.at = "answered", !.version = cur.version]
  <2>2. /\ new \in Requests /\ new.floor = rd[r].floor
        /\ new.at = "answered" /\ new.version = cur.version
    BY <1>0, <2>1 DEF Requests, Places, Captures
  <2>3. Put(r, new)
    BY <1>1 DEF Capture
  <2> HIDE DEF new
  <2> QED
    BY <1>0, <1>1, <2>1, <2>2, <2>3, PlainReaderStep
       DEF InspectInv, InspectTypeOK, Capture, Fresh, Captures, Requests
<1>2. CASE ~Cached /\ ~stopped
  <2>1. PICK rec \in Requests : Put(r, rec) /\ rec.floor = rd[r].floor /\ rec.at = "failed"
    BY <1>0, <1>2 DEF Capture, Fails, Requests, Places
  <2> QED
    BY <1>0, <1>2, <2>1, PlainReaderStep DEF InspectInv, InspectTypeOK, Capture, Fresh
<1>3. CASE ~Cached /\ stopped
  <2> DEFINE new == [rd[r] EXCEPT !.at = "stack", !.stops = stops]
  <2>1. /\ new \in Requests /\ new.floor = rd[r].floor
        /\ new.at = "stack" /\ new.stops = stops
    BY <1>0 DEF InspectInv, InspectTypeOK, Requests, Places
  <2>2. Put(r, new)
    BY <1>3 DEF Capture
  <2> HIDE DEF new
  <2> QED
    BY <1>0, <1>3, <2>1, <2>2, PlainReaderStep DEF InspectInv, InspectTypeOK, Capture, Fresh
<1> QED
  BY <1>1, <1>2, <1>3

\* Letting captureMu go takes it from nobody else.
LEMMA UnlockOwn ==
    ASSUME captureMu \in Readers \cup {None}, NEW r \in Readers, Unlock(r)
    PROVE  /\ captureMu' = captureMu \/ captureMu \in {None, r}
           /\ captureMu' \in Readers \cup {None}
BY DEF Unlock

LEMMA StackStep ==
    ASSUME InspectInv, NEW r \in Readers, Stack(r)
    PROVE  InspectInv'
<1>0. rd[r] \in Requests /\ FetchesLocked(r) /\ Fresh(r)
  BY DEF InspectInv, InspectTypeOK
<1>1. CASE halted
  <2> DEFINE new == [rd[r] EXCEPT !.at = "locals", !.frame = epoch]
  <2>1. /\ new \in Requests /\ new.floor = rd[r].floor /\ new.kind = rd[r].kind
        /\ new.at = "locals" /\ new.stops = rd[r].stops
    BY <1>0 DEF InspectInv, InspectTypeOK, Requests, Places
  <2>2. Put(r, new)
    BY <1>1 DEF Stack
  <2> HIDE DEF new
  <2> QED
    BY <1>0, <1>1, <2>1, <2>2, PlainReaderStep
       DEF InspectInv, InspectTypeOK, Stack, FetchesLocked, Fresh
<1>2. CASE ~halted
  <2>1. PICK rec \in Requests : Put(r, rec) /\ rec.floor = rd[r].floor /\ rec.at = "failed"
    BY <1>0, <1>2 DEF Stack, Fails, Requests, Places
  <2> QED
    BY <1>0, <1>2, <2>1, UnlockOwn, PlainReaderStep DEF InspectInv, InspectTypeOK, Stack, Fresh
<1> QED
  BY <1>1, <1>2

LEMMA FrameLocalsStep ==
    ASSUME InspectInv, NEW r \in Readers, FrameLocals(r)
    PROVE  InspectInv'
<1>0. rd[r] \in Requests /\ FetchesLocked(r) /\ Fresh(r)
  BY DEF InspectInv, InspectTypeOK
<1>1. CASE ~halted \/ rd[r].frame # epoch
  <2>1. PICK rec \in Requests : Put(r, rec) /\ rec.floor = rd[r].floor /\ rec.at = "failed"
    BY <1>0, <1>1 DEF FrameLocals, Fails, Requests, Places
  <2> QED
    BY <1>0, <1>1, <2>1, UnlockOwn, PlainReaderStep
       DEF InspectInv, InspectTypeOK, FrameLocals, Fresh
<1>2. CASE ~(~halted \/ rd[r].frame # epoch)
  <2> DEFINE new == [rd[r] EXCEPT !.version = version,
                                  !.at = IF rd[r].kind \in Direct THEN "answered" ELSE "store"]
  <2>1. /\ new \in Requests /\ new.floor = rd[r].floor /\ new.kind = rd[r].kind
        /\ new.stops = rd[r].stops /\ new.version = version
        /\ IF rd[r].kind \in Direct THEN new.at = "answered" ELSE new.at = "store"
    BY <1>0 DEF InspectInv, InspectTypeOK, Requests, Places
  <2>5. Put(r, new)
    BY <1>2 DEF FrameLocals
  <2> HIDE DEF new
  <2>2. /\ SessionUnchanged /\ UNCHANGED <<cur, prev, curStale, captureMu>>
        /\ rd[r].at = "locals"
    BY <1>2 DEF FrameLocals, captures
  <2>3. CapturesInOrder'
    BY <2>2 DEF InspectInv, CapturesInOrder, Cached, SessionUnchanged
  <2>4. rd'[r] = new => FetchesLocked(r)' /\ Fresh(r)'
    BY <1>0, <2>1, <2>2
       DEF InspectInv, InspectTypeOK, FetchesLocked, Fresh, SessionUnchanged, Requests
  <2> QED
    BY <2>1, <2>5, <2>2, <2>3, <2>4, ReaderStep DEF InspectInv, InspectTypeOK
<1> QED
  BY <1>1, <1>2

LEMMA StoreStep ==
    ASSUME InspectInv, NEW r \in Readers, Store(r)
    PROVE  InspectInv'
<1>0. rd[r] \in Requests /\ FetchesLocked(r) /\ Fresh(r)
  BY DEF InspectInv, InspectTypeOK
<1>1. PICK rec \in Requests :
          /\ Put(r, rec) /\ rec.floor = rd[r].floor
          /\ rec.at = "answered" /\ rec.version = rd[r].version
  BY <1>0 DEF Store, Requests, Places
<1>2. SessionUnchanged /\ Unlock(r) /\ rd[r].at = "store"
  BY DEF Store
<1>3. CASE stops # rd[r].stops
  BY <1>0, <1>1, <1>2, <1>3, UnlockOwn, PlainReaderStep
     DEF InspectInv, InspectTypeOK, Store, Fresh
<1>4. CASE stops = rd[r].stops
  <2>1. /\ cur' = [stops |-> stops, version |-> rd[r].version] /\ curStale' = FALSE
        /\ prev' = IF cur = None \/ cur.stops # stops THEN cur ELSE prev
    BY <1>4 DEF Store, PrevAt
  <2>2. /\ cur' \in Captures /\ cur' # None
        /\ cur'.stops = stops /\ cur'.version = rd[r].version
    BY <1>0, <2>1, NoneAssumption DEF InspectInv, InspectTypeOK, Captures, Requests
  <2>3. prev' \in Captures \cup {None} /\ (prev' # None => prev'.stops < stops)
    BY <2>1 DEF InspectInv, InspectTypeOK, CapturesInOrder, Captures
  <2>4. CapturesInOrder'
    BY <1>0, <1>2, <1>4, <2>2, <2>3
       DEF CapturesInOrder, Cached, SessionUnchanged, FetchesLocked, InspectInv, InspectTypeOK
  <2>5. rd'[r] = rec => FetchesLocked(r)' /\ Fresh(r)'
    BY <1>0, <1>1, <1>2 DEF FetchesLocked, Fresh, SessionUnchanged
  <2> QED
    BY <1>1, <1>2, <2>1, <2>2, <2>3, <2>4, <2>5, UnlockOwn, ReaderStep
       DEF InspectInv, InspectTypeOK
<1> QED
  BY <1>3, <1>4

LEMMA ReturnStep ==
    ASSUME InspectInv, NEW r \in Readers, Return(r)
    PROVE  InspectInv'
<1>1. Idle \in Requests /\ Idle.at = "idle" /\ Idle.floor = 0
  BY IdleType DEF Idle
<1> QED
  BY <1>1, PlainReaderStep DEF InspectInv, InspectTypeOK, Return

LEMMA StepInspect == InspectInv /\ [InspectNext]_inspectVars => InspectInv'
<1> SUFFICES ASSUME InspectInv, [InspectNext]_inspectVars
             PROVE  InspectInv'
  OBVIOUS
<1>1. CASE UNCHANGED inspectVars
  BY <1>1 DEF inspectVars, captures, InspectInv, InspectTypeOK, CapturesInOrder,
              FetchesLocked, Fresh, Cached
<1>2. CASE InspectNext
  BY <1>2, ProgramSteps, AskStep, RequireStoppedStep, ForwardStep, ForwardGuardedStep,
     CaptureStep, StackStep, FrameLocalsStep, StoreStep, ReturnStep DEF InspectNext
<1> QED
  BY <1>1, <1>2

\* Every answer has all that was known when its request was made, and the
\* captures others are diffed against are of earlier stops, for any readers
\* and any number of stops and changes (capture, markStale).
THEOREM ReadsAreFresh == InspectSpec => []ReadsFresh
<1>1. InspectInv => ReadsFresh
  BY DEF InspectInv, Fresh, CapturesInOrder, ReadsFresh
<1> QED
  BY <1>1, InitInspect, StepInspect, PTL DEF InspectSpec
=============================================================================
