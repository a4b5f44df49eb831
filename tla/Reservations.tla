---------------------------- MODULE Reservations ----------------------------
(***************************************************************************)
(* Declared-cost admission (src/scheduler/reservation.rs): one ledger per  *)
(* runtime, pipelines that charge it, reservation handles that split a     *)
(* pipeline's credits among stages, and byte leases that outlive them.     *)
(* The ledger, each pipeline's total and each credit bank have a mutex of  *)
(* their own; one action is one critical section.                          *)
(*                                                                         *)
(* A handle stands for its credit bank too (they are created together),    *)
(* and a pipeline for the handle it was reserved with.  Of SWCost's four   *)
(* dimensions the three that count metadata behave alike and are one here. *)
(* Refused calls change nothing and are left out.  (LedgerInit, LedgerNext *)
(* and the like are named so that RuntimeProofs can be about this module   *)
(* beside a runtime's life.)                                               *)
(***************************************************************************)
EXTENDS Integers, FiniteSets, Functions

CONSTANTS
  Handles,       \* reservations the program may make or split off
  Leases,        \* byte leases it may take
  Costs,         \* costs it asks for
  Batches,       \* sizes of the batches of plain owned records
  NoHandle,      \* no handle
  Target,        \* SWLimits::ordinary_target
  Allowance,     \* SWLimits::required_allowance, its metadata
  PipelineLimit, \* SWLimits::required_pipelines
  Ceiling        \* SWLimits::hard_byte_ceiling

Cost == [meta : Nat, bytes : Nat]
Zero == [meta |-> 0, bytes |-> 0]
Kinds == {"Ordinary", "Required"}

ASSUME ReservationAssumption ==
  /\ IsFiniteSet(Handles) /\ IsFiniteSet(Leases)
  /\ NoHandle \notin Handles /\ Handles \cap Leases = {}
  /\ Costs \subseteq Cost /\ Batches \subseteq Nat \ {0}
  /\ Target \in Cost /\ Allowance \in Nat /\ PipelineLimit \in Nat
  /\ Ceiling \in Nat /\ Target.bytes <= Ceiling

VARIABLES
  usage,      \* Usage::ordinary and Usage::required
  pipelines,  \* Usage::pipelines
  closed,     \* Usage::closed
  owned,      \* plain owned records that hold an OwnedCharge
  pipe,       \* whether the pipeline reserved with a handle holds its charge
  kind,       \* Pipeline::kind
  total,      \* Pipeline::total
  handle,     \* where a reservation stands
  root,       \* the handle its pipeline was reserved with
  parent,     \* CreditBank::parent
  balance,    \* CreditState::balance
  growth,     \* claimed by a try_grow that has not added it yet
  lease,      \* where a byte lease stands
  bank,       \* SWByteLease::credits
  bytes,      \* SWByteLease::bytes
  refund      \* refunds on their way up: the bank to look at, and the cost

allVars == <<usage, pipelines, closed, owned, pipe, kind, total, handle, root,
             parent, balance, growth, lease, bank, bytes, refund>>

ledgerVars == <<usage, pipelines, closed>>
pipeVars == <<pipe, kind, total>>
treeVars == <<root, parent>>
leaseVars == <<lease, bank, bytes>>

-----------------------------------------------------------------------------
(* Vocabulary *)

Plus(a, b) == [meta |-> a.meta + b.meta, bytes |-> a.bytes + b.bytes]
Minus(a, b) == [meta |-> a.meta - b.meta, bytes |-> a.bytes - b.bytes]
Bytes(n) == [meta |-> 0, bytes |-> n]
Fits(a, b) == a.meta <= b.meta /\ a.bytes <= b.bytes

\* Sums of costs, by dimension.
SumOf(f, S) ==
  [meta |-> SumFunctionOnSet([x \in S |-> f[x].meta], S),
   bytes |-> SumFunctionOnSet([x \in S |-> f[x].bytes], S)]

\* A bank is retired with its handle.
Alive(h) == handle[h] = "live"

\* &mut self: nobody else uses a handle that grows.
Usable(h) == Alive(h) /\ growth[h] = Zero

\* try_grow holds the pipeline's total from its claim to its end.
TotalFree(r) == \A h \in Handles : root[h] = r => growth[h] = Zero

\* What keeps the pipeline's Arc: handles, and leases that upgraded it.
Refs(r) == {h \in Handles : root[h] = r /\ handle[h] \in {"live", "retired"}} \cup
           {l \in Leases : lease[l] \in {"upgraded", "refunding"} /\ root[bank[l]] = r}

AllBytes == usage["Ordinary"].bytes + usage["Required"].bytes

\* Ledger::claim: ordinary work is held to its target in every dimension,
\* required work to its metadata; the ceiling bounds the bytes of both.
Available(k, cost) ==
  LET next == Plus(usage[k], cost)
  IN  /\ ~closed
      /\ IF k = "Ordinary" THEN Fits(next, Target) ELSE next.meta <= Allowance
      /\ AllBytes + cost.bytes <= Ceiling

Charge(k, cost) == usage' = [usage EXCEPT ![k] = Plus(@, cost)]

\* Ledger::release, which asserts that the charge is there.
Discharge(k, cost) == usage' = [usage EXCEPT ![k] = Minus(@, cost)]

\* The refund of a cost enters at a bank; without one it is over.
Refunding(x, at, cost) ==
  refund' = [refund EXCEPT ![x] = [at |-> at, cost |-> IF at = NoHandle THEN Zero ELSE cost]]

LedgerTypeOK ==
  /\ usage \in [Kinds -> Cost] /\ pipelines \in Nat /\ closed \in BOOLEAN
  /\ owned \in Nat
  /\ pipe \in [Handles -> {"none", "charged", "released"}]
  /\ kind \in [Handles -> Kinds] /\ total \in [Handles -> Cost]
  /\ handle \in [Handles -> {"free", "live", "retired", "gone"}]
  /\ root \in [Handles -> Handles \cup {NoHandle}]
  /\ parent \in [Handles -> Handles \cup {NoHandle}]
  /\ balance \in [Handles -> Cost] /\ growth \in [Handles -> Cost]
  /\ lease \in [Leases -> {"free", "held", "upgraded", "refunding", "gone"}]
  /\ bank \in [Leases -> Handles \cup {NoHandle}] /\ bytes \in [Leases -> Nat]
  /\ refund \in [Handles \cup Leases -> [at : Handles \cup {NoHandle}, cost : Cost]]

LedgerInit ==
  /\ usage = [k \in Kinds |-> Zero] /\ pipelines = 0 /\ closed = FALSE
  /\ owned = 0
  /\ pipe = [h \in Handles |-> "none"]
  /\ kind = [h \in Handles |-> "Ordinary"] /\ total = [h \in Handles |-> Zero]
  /\ handle = [h \in Handles |-> "free"]
  /\ root = [h \in Handles |-> NoHandle] /\ parent = [h \in Handles |-> NoHandle]
  /\ balance = [h \in Handles |-> Zero] /\ growth = [h \in Handles |-> Zero]
  /\ lease = [l \in Leases |-> "free"] /\ bank = [l \in Leases |-> NoHandle]
  /\ bytes = [l \in Leases |-> 0]
  /\ refund = [x \in Handles \cup Leases |-> [at |-> NoHandle, cost |-> Zero]]

-----------------------------------------------------------------------------
(* The ledger's users *)

\* try_charge_owned_many_into takes as many plain records as fit; with a batch
\* of one it is try_charge_owned.
Accepted(n) ==
  LET room == Target.meta - usage["Ordinary"].meta
  IN  IF n <= room THEN n ELSE room

ChargeOwned(n) ==
  /\ ~closed /\ Accepted(n) > 0
  /\ Charge("Ordinary", [meta |-> Accepted(n), bytes |-> 0])
  /\ owned' = owned + Accepted(n)
  /\ UNCHANGED <<pipelines, closed, pipeVars, handle, treeVars, balance, growth,
                 leaseVars, refund>>

\* OwnedCharge::drop, one record at a time.
DropOwned ==
  /\ owned > 0
  /\ owned' = owned - 1
  /\ Discharge("Ordinary", [meta |-> 1, bytes |-> 0])
  /\ UNCHANGED <<pipelines, closed, pipeVars, handle, treeVars, balance, growth,
                 leaseVars, refund>>

\* try_reserve_ordinary and try_reserve_required: a new pipeline.
Reserve(h, k, cost) ==
  /\ handle[h] = "free" /\ Available(k, cost)
  /\ k = "Required" => pipelines < PipelineLimit
  /\ Charge(k, cost)
  /\ pipelines' = pipelines + (IF k = "Required" THEN 1 ELSE 0)
  /\ pipe' = [pipe EXCEPT ![h] = "charged"]
  /\ kind' = [kind EXCEPT ![h] = k]
  /\ total' = [total EXCEPT ![h] = cost]
  /\ handle' = [handle EXCEPT ![h] = "live"]
  /\ root' = [root EXCEPT ![h] = h]
  /\ balance' = [balance EXCEPT ![h] = cost]
  /\ UNCHANGED <<closed, owned, parent, growth, leaseVars, refund>>

\* stage and split move credits to a child, without the ledger.
Stage(h, child, cost) ==
  /\ Usable(h) /\ handle[child] = "free" /\ Fits(cost, balance[h])
  /\ handle' = [handle EXCEPT ![child] = "live"]
  /\ root' = [root EXCEPT ![child] = root[h]]
  /\ parent' = [parent EXCEPT ![child] = h]
  /\ balance' = [balance EXCEPT ![h] = Minus(@, cost), ![child] = cost]
  /\ UNCHANGED <<ledgerVars, owned, pipeVars, growth, leaseVars, refund>>

\* try_grow up to the ledger's claim.  The checks it makes before are implied:
\* the pipeline's total is part of the usage.
Grow(h, cost) ==
  /\ Usable(h) /\ TotalFree(root[h]) /\ cost # Zero
  /\ Available(kind[root[h]], cost)
  /\ Charge(kind[root[h]], cost)
  /\ growth' = [growth EXCEPT ![h] = cost]
  /\ UNCHANGED <<pipelines, closed, owned, pipeVars, handle, treeVars, balance,
                 leaseVars, refund>>

\* The rest of it: the handle's own bank is live.
FinishGrow(h) ==
  /\ growth[h] # Zero
  /\ total' = [total EXCEPT ![root[h]] = Plus(@, growth[h])]
  /\ balance' = [balance EXCEPT ![h] = Plus(@, growth[h])]
  /\ growth' = [growth EXCEPT ![h] = Zero]
  /\ UNCHANGED <<ledgerVars, owned, pipe, kind, handle, treeVars, leaseVars, refund>>

Close ==
  /\ ~closed
  /\ closed' = TRUE
  /\ UNCHANGED <<usage, pipelines, owned, pipeVars, handle, treeVars, balance,
                 growth, leaseVars, refund>>

-----------------------------------------------------------------------------
(* Handles and credits *)

\* SWReservation::drop retires the bank and takes its credits; those of a
\* pipeline's first handle stay charged until the pipeline ends.
RetireHandle(h) ==
  /\ Usable(h)
  /\ handle' = [handle EXCEPT ![h] = "retired"]
  /\ balance' = [balance EXCEPT ![h] = Zero]
  /\ Refunding(h, parent[h], balance[h])
  /\ UNCHANGED <<ledgerVars, owned, pipeVars, treeVars, growth, leaseVars>>

\* Fault: a retired bank takes the credits.
RefundHere(x) ==
  LET at == refund[x].at
  IN  /\ at # NoHandle
      /\ balance' = [balance EXCEPT ![at] = Plus(@, refund[x].cost)]
      /\ Refunding(x, NoHandle, Zero)
      /\ UNCHANGED <<ledgerVars, owned, pipeVars, handle, treeVars, growth, leaseVars>>

\* CreditBank::refund looks at one bank at a time, and goes past retired ones.
RefundStep(x) ==
  LET at == refund[x].at
  IN  /\ at # NoHandle
      /\ IF Alive(at)
         THEN /\ balance' = [balance EXCEPT ![at] = Plus(@, refund[x].cost)]
              /\ Refunding(x, NoHandle, Zero)
         ELSE /\ Refunding(x, parent[at], refund[x].cost)
              /\ UNCHANGED balance
      /\ UNCHANGED <<ledgerVars, owned, pipeVars, handle, treeVars, growth, leaseVars>>

\* The end of the drop gives up the pipeline.
Release(h) ==
  /\ handle[h] = "retired" /\ refund[h].at = NoHandle
  /\ handle' = [handle EXCEPT ![h] = "gone"]
  /\ UNCHANGED <<ledgerVars, owned, pipeVars, treeVars, balance, growth, leaseVars,
                 refund>>

\* Pipeline::drop, once the last reference is gone.
ReleasePipeline(r) ==
  /\ pipe[r] = "charged" /\ Refs(r) = {}
  /\ pipe' = [pipe EXCEPT ![r] = "released"]
  /\ Discharge(kind[r], total[r])
  /\ pipelines' = pipelines - (IF kind[r] = "Required" THEN 1 ELSE 0)
  /\ UNCHANGED <<closed, owned, kind, total, handle, treeVars, balance, growth,
                 leaseVars, refund>>

-----------------------------------------------------------------------------
(* Byte leases *)

\* Fault: the pipeline keeps the charge of the detached bytes.
RetainTwice(h, l, n) ==
  /\ Usable(h) /\ TotalFree(root[h])
  /\ lease[l] = "free" /\ n \in 1 .. balance[h].bytes
  /\ balance' = [balance EXCEPT ![h] = Minus(@, Bytes(n))]
  /\ lease' = [lease EXCEPT ![l] = "held"]
  /\ bank' = [bank EXCEPT ![l] = h]
  /\ bytes' = [bytes EXCEPT ![l] = n]
  /\ UNCHANGED <<ledgerVars, owned, pipeVars, handle, treeVars, growth, refund>>

\* retain_bytes holds the total and the bank.
Retain(h, l, n) ==
  /\ Usable(h) /\ TotalFree(root[h])
  /\ lease[l] = "free" /\ n \in 1 .. balance[h].bytes
  /\ balance' = [balance EXCEPT ![h] = Minus(@, Bytes(n))]
  /\ total' = [total EXCEPT ![root[h]] = Minus(@, Bytes(n))]
  /\ lease' = [lease EXCEPT ![l] = "held"]
  /\ bank' = [bank EXCEPT ![l] = h]
  /\ bytes' = [bytes EXCEPT ![l] = n]
  /\ UNCHANGED <<ledgerVars, owned, pipe, kind, handle, treeVars, growth, refund>>

\* SWByteLease::drop upgrades the pipeline.  When that fails it never succeeds
\* again, and the charge is released at once.
DropLease(l) ==
  /\ lease[l] = "held"
  /\ IF Refs(root[bank[l]]) # {}
     THEN lease' = [lease EXCEPT ![l] = "upgraded"] /\ UNCHANGED usage
     ELSE /\ lease' = [lease EXCEPT ![l] = "gone"]
          /\ Discharge(kind[root[bank[l]]], Bytes(bytes[l]))
  /\ UNCHANGED <<pipelines, closed, owned, pipeVars, handle, treeVars, balance,
                 growth, bank, bytes, refund>>

\* The pipeline takes the charge back, then the credits go to the nearest bank.
ReturnBytes(l) ==
  /\ lease[l] = "upgraded" /\ TotalFree(root[bank[l]])
  /\ total' = [total EXCEPT ![root[bank[l]]] = Plus(@, Bytes(bytes[l]))]
  /\ lease' = [lease EXCEPT ![l] = "refunding"]
  /\ Refunding(l, bank[l], Bytes(bytes[l]))
  /\ UNCHANGED <<ledgerVars, owned, pipe, kind, handle, treeVars, balance, growth,
                 bank, bytes>>

ForgetPipeline(l) ==
  /\ lease[l] = "refunding" /\ refund[l].at = NoHandle
  /\ lease' = [lease EXCEPT ![l] = "gone"]
  /\ UNCHANGED <<ledgerVars, owned, pipeVars, handle, treeVars, balance, growth,
                 bank, bytes, refund>>

-----------------------------------------------------------------------------
LedgerStep ==
  \/ \E n \in Batches : ChargeOwned(n)
  \/ \E h \in Handles, k \in Kinds, cost \in Costs : Reserve(h, k, cost)
  \/ DropOwned \/ Close

HandleStep(h) ==
  \/ \E cost \in Costs : Grow(h, cost) \/ \E child \in Handles : Stage(h, child, cost)
  \/ FinishGrow(h) \/ RetireHandle(h) \/ Release(h) \/ ReleasePipeline(h)

LeaseStep(l) ==
  \/ \E h \in Handles, cost \in Costs : Retain(h, l, cost.bytes)
  \/ DropLease(l) \/ ReturnBytes(l) \/ ForgetPipeline(l)

LedgerNext ==
  \/ LedgerStep
  \/ \E h \in Handles : HandleStep(h)
  \/ \E l \in Leases : LeaseStep(l)
  \/ \E x \in Handles \cup Leases : RefundStep(x)

LedgerSpec == LedgerInit /\ [][LedgerNext]_allVars

-----------------------------------------------------------------------------
(* Properties *)

Charged(k) == {r \in Handles : pipe[r] = "charged" /\ kind[r] = k}

Growing(k) == {h \in Handles : growth[h] # Zero /\ kind[root[h]] = k}

Detached(k) == {l \in Leases : lease[l] \in {"held", "upgraded"} /\ kind[root[bank[l]]] = k}

\* The ledger holds exactly what is charged to it: pipelines, growth under way,
\* detached bytes and plain records.  Every charge ends once, in whichever order
\* a pipeline, its stages and its byte leases are dropped; "reservation release
\* exceeds charge" (reservation.rs:525) never fires.
LedgerExact ==
  /\ \A k \in Kinds :
       usage[k] = Plus(SumOf(total, Charged(k)),
                  Plus(SumOf(growth, Growing(k)),
                  Plus(SumOf([l \in Leases |-> Bytes(bytes[l])], Detached(k)),
                       [meta |-> IF k = "Ordinary" THEN owned ELSE 0, bytes |-> 0])))
  /\ pipelines = Cardinality(Charged("Required"))

\* Ordinary work keeps to its target and required metadata to its allowance,
\* whatever the other kind does, and the bytes of both to the hard ceiling.
LimitsHeld ==
  /\ Fits(usage["Ordinary"], Target)
  /\ usage["Required"].meta <= Allowance
  /\ AllBytes <= Ceiling
  /\ pipelines <= PipelineLimit

\* Both together, over well-typed state: what is charged is exact and bounded.
LedgerBounded == LedgerTypeOK /\ LedgerExact /\ LimitsHeld

Branch(r) == {h \in Handles : root[h] = r}

Returning(r) ==
  {x \in Branch(r) \cup {l \in Leases : lease[l] = "refunding" /\ root[bank[l]] = r} :
     refund[x].at # NoHandle}

Credits(r) == Plus(SumOf(balance, Branch(r)),
                   SumOf([x \in Handles \cup Leases |-> refund[x].cost], Returning(r)))

\* Credits are never minted: what the handles of a pipeline can spend, or will
\* be able to, is covered by its charge.  Nor are they lost while the pipeline's
\* first handle lives: a refund that races the retirement of banks still reaches
\* one ("A refund either precedes retirement's transfer or passes through to the
\* nearest live ancestor", reservation.rs:563).
CreditsConserved ==
  \A r \in Handles : pipe[r] = "charged" =>
    /\ Fits(Credits(r), total[r])
    /\ Alive(r) => Credits(r) = total[r]
    /\ \A h \in Branch(r) : ~Alive(h) => balance[h] = Zero
=============================================================================
