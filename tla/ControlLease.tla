--------------------------- MODULE ControlLease ---------------------------
(***************************************************************************)
(* The control lease of one debug session (internal/session/lease.go): who *)
(* may change the program's execution, under which policy, and which       *)
(* clients have asked the holder for it.                                   *)
(*                                                                         *)
(* Every operation below runs under Session.mu, so each is one atomic      *)
(* action.  A refused operation (LEASE_HELD, SESSION_EXITED) changes       *)
(* nothing and is not an action; only its refusal's condition is kept, as  *)
(* the guard of the operation that is allowed.                             *)
(***************************************************************************)
EXTENDS Naturals, Sequences

CONSTANTS
    Clients,      \* the clients of the session (api.Client ids)
    Humans,       \* those for which Client.IsHuman holds
    Nobody,       \* the zero api.Client: no one holds the lease
    Starter,      \* the client that started the session
    MaxRequests   \* maxLeaseRequests

ASSUME ClientsAssumption ==
    /\ Humans \subseteq Clients
    /\ Starter \in Clients
    /\ Nobody \notin Clients

ASSUME MaxRequestsAssumption == MaxRequests \in Nat \ {0}

VARIABLES
    policy,    \* lease.policy
    holder,    \* lease.holder
    requests,  \* lease.requests, oldest first: the clients that asked
    live,      \* Session.state # exited
    moved      \* the newest lease event: who acted, how, and with --force?

leaseVars == <<policy, holder, requests, live, moved>>

Policies == {"free", "handoff", "humanPriority"}
Actions  == {"start", "take", "force", "auto", "release", "grant",
             "policy", "request", "leave", "end"}

(***************************************************************************)
(* allows: whether client c may do op ("exec", "take" or "admin").         *)
(***************************************************************************)
\* Mutant: any human may take it, also from another human.
PolicyAllowsAnyHuman(c) ==
    \/ policy = "free"
    \/ policy = "humanPriority" /\ c \in Humans

PolicyAllows(c) ==
    \/ policy = "free"
    \/ policy = "humanPriority" /\ c \in Humans /\ holder \notin Humans

Allows(op, c, force) ==
    \/ force
    \/ holder \in {Nobody, c}
    \/ op # "admin" /\ PolicyAllows(c)

\* Mutant: the pending requests survive the change of hands.
SetHolderKeepsRequests(h, actor, action, force) ==
    /\ holder' = h
    /\ moved' = [by |-> actor, action |-> action, force |-> force]
    /\ UNCHANGED requests

\* setHolderLocked: the lease moves and the pending requests are cleared.
SetHolder(h, actor, action, force) ==
    /\ holder' = h
    /\ requests' = <<>>
    /\ moved' = [by |-> actor, action |-> action, force |-> force]

----------------------------------------------------------------------------
(***************************************************************************)
(* The operations.                                                         *)
(***************************************************************************)

\* TakeLease by a client that does not hold it yet; force overrides policy.
TakeLease(c, force) ==
    /\ holder # c
    /\ Allows("take", c, force)
    /\ LET overruled == ~Allows("take", c, FALSE)
       IN  SetHolder(c, c, IF overruled THEN "force" ELSE "take", overruled)
    /\ UNCHANGED <<policy, live>>

\* ReleaseLease: only the holder's release does anything.
ReleaseLease(c) ==
    /\ holder = c
    /\ SetHolder(Nobody, c, "release", FALSE)
    /\ UNCHANGED <<policy, live>>

\* GrantLease: c gives the lease to another client than its holder.
GrantLease(c, to, force) ==
    /\ Allows("admin", c, force)
    /\ holder # to
    /\ SetHolder(to, c, "grant", force)
    /\ UNCHANGED <<policy, live>>

\* SetLeasePolicy: the pending requests and the holder stay.
SetLeasePolicy(c, p, force) ==
    /\ Allows("admin", c, force)
    /\ policy # p
    /\ policy' = p
    /\ moved' = [by |-> c, action |-> "policy", force |-> force]
    /\ UNCHANGED <<holder, requests, live>>

\* acquireLocked, called when c's execution request is admitted.
Acquire(c) ==
    /\ Allows("exec", c, FALSE)
    /\ \/ /\ holder = c
          /\ UNCHANGED <<holder, requests, moved>>
       \/ /\ holder # c
          /\ SetHolder(c, c, "auto", FALSE)
    /\ UNCHANGED <<policy, live>>

(***************************************************************************)
(* slices.DeleteFunc of the requests of c in s.  A client has at most one  *)
(* (RequestsAddressHolder), so it is the removal of one position.          *)
(***************************************************************************)
Without(s, c) ==
    LET at == {i \in DOMAIN s : s[i] = c}
    IN  IF at = {}
        THEN s
        ELSE LET i == CHOOSE i \in at : TRUE
             IN  [j \in 1 .. Len(s) - 1 |-> IF j < i THEN s[j] ELSE s[j + 1]]

\* Mutant: the list is cut only once it is longer than its bound.
MakeRoomLate(s) ==
    IF Len(s) <= MaxRequests THEN s ELSE SubSeq(s, Len(s) - MaxRequests + 2, Len(s))

\* slices.Delete of the oldest requests of s, so that one more fits.
MakeRoom(s) ==
    IF Len(s) < MaxRequests
    THEN s
    ELSE SubSeq(s, Len(s) - MaxRequests + 2, Len(s))

\* Mutant: room is made before c's own earlier request is removed.
RequestLeaseRoomFirst(c) ==
    /\ live
    /\ holder \notin {Nobody, c}
    /\ requests' = Append(Without(MakeRoom(requests), c), c)
    /\ moved' = [by |-> c, action |-> "request", force |-> FALSE]
    /\ UNCHANGED <<policy, holder, live>>

\* RequestLease: c's earlier request, if any, is replaced by a newest one.
RequestLease(c) ==
    /\ live
    /\ holder \notin {Nobody, c}
    /\ requests' = Append(MakeRoom(Without(requests, c)), c)
    /\ moved' = [by |-> c, action |-> "request", force |-> FALSE]
    /\ UNCHANGED <<policy, holder, live>>

\* The last step of Session.leave: c's last editor connection closed.
LeaveLease(c) ==
    /\ live
    /\ \/ /\ holder = c
          /\ SetHolder(Nobody, c, "leave", FALSE)
       \/ /\ holder # c
          /\ requests' = Without(requests, c)
          /\ moved' = [by |-> c, action |-> "leave", force |-> FALSE]
          /\ UNCHANGED holder
    /\ UNCHANGED <<policy, live>>

\* The session ends (endLocked): the lease stays as it is, but no request is
\* recorded and no client leaves any more.
EndLease ==
    /\ live
    /\ live' = FALSE
    /\ moved' = [by |-> Nobody, action |-> "end", force |-> FALSE]
    /\ UNCHANGED <<policy, holder, requests>>

----------------------------------------------------------------------------
\* newSession: the starter holds the lease, under the policy it chose.
LeaseInit ==
    /\ policy \in Policies
    /\ holder = Starter
    /\ requests = <<>>
    /\ live = TRUE
    /\ moved = [by |-> Starter, action |-> "start", force |-> FALSE]

LeaseNext ==
    \/ \E c \in Clients, force \in BOOLEAN :
           \/ TakeLease(c, force)
           \/ \E to \in Clients : GrantLease(c, to, force)
           \/ \E p \in Policies : SetLeasePolicy(c, p, force)
    \/ \E c \in Clients :
           \/ ReleaseLease(c)
           \/ Acquire(c)
           \/ RequestLease(c)
           \/ LeaveLease(c)
    \/ EndLease

LeaseSpec == LeaseInit /\ [][LeaseNext]_leaseVars

----------------------------------------------------------------------------
(***************************************************************************)
(* Properties.                                                             *)
(***************************************************************************)

\* The variables' types; the requests never outgrow maxLeaseRequests.
LeaseTypeOK ==
    /\ policy \in Policies
    /\ holder \in Clients \cup {Nobody}
    /\ requests \in Seq(Clients)
    /\ Len(requests) <= MaxRequests
    /\ live \in BOOLEAN
    /\ moved \in [by : Clients \cup {Nobody}, action : Actions, force : BOOLEAN]

\* What lease.go promises of lease.requests ("at most one per client; they
\* are cleared whenever the lease changes hands"): a pending request is always
\* addressed to a holder other than the client that made it, and no client
\* has two, whatever takes, grants, releases, leaves and displacements came
\* before.
RequestsAddressHolder ==
    /\ holder = Nobody => requests = <<>>
    /\ \A i \in DOMAIN requests : requests[i] # holder
    /\ \A i, j \in DOMAIN requests : requests[i] = requests[j] => i = j

\* Nobody loses control of the program against the policy: without --force, a
\* client other than the holder never changes the policy, and moves the lease
\* only by taking it or executing, when the policy is free, or human-priority
\* and it is a human taking it from an agent.  Covers take, grant, policy
\* change, release, request, execution and an editor's leaving.
HolderKeepsControl ==
    [][ (holder # Nobody /\ moved'.by # holder /\ ~moved'.force)
        => /\ policy' = policy
           /\ \/ holder' = holder
              \/ /\ moved'.action \in {"take", "auto"}
                 /\ \/ policy = "free"
                    \/ /\ policy = "humanPriority"
                       /\ holder \notin Humans
                       /\ holder' \in Humans ]_leaseVars

\* A recorded request is shown until the lease changes hands: while the holder
\* stays, a client's request disappears only when that client left, or when it
\* was the oldest of a full list and a client with no request in it asked; and
\* the requests that stay keep their order, oldest first.
RequestsKept ==
    [][ holder' = holder
        => \A i \in DOMAIN requests :
              \/ \E j \in DOMAIN requests' :
                    /\ requests'[j] = requests[i]
                    /\ j <= i \/ requests[i] = moved'.by
              \/ moved'.action = "leave" /\ moved'.by = requests[i]
              \/ /\ moved'.action = "request"
                 /\ i = 1 /\ Len(requests) = MaxRequests
                 /\ \A k \in DOMAIN requests : requests[k] # moved'.by ]_leaseVars
=============================================================================
