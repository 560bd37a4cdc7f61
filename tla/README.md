# Argus: a TLA+ verification of the kernel, its adapter and its recovery

Argus is a reference monitor for agents that call tools. It decides which
invocation may start, which data an agent may take in, and what may leave
through an invocation or be handed to another agent. The repository holds the
kernel in Rust (`src/argus/crates/argus-kernel`), an Elixir binding with a
native adapter around it (`src/ex_argus`), and Lean developments about the same
kernel (`src/tzimtzum`, `src/argus/formal-lean`, `src/kav`).

The modules here are translated from the Rust and Elixir code, not from the
Lean specification. TLC checks them on small instances; TLAPS proves nearly all
of the safety properties for every value of the constants.

## 1. Inventory

### Components, their state and their operations

| Component | Code | State | Operations |
| --- | --- | --- | --- |
| Kernel transitions | `transitions.rs`, `state.rs`, `types.rs`, `collections.rs`, `background.rs` | active agents, parent edges, capabilities, confidentiality and integrity labels, pending records, challenges, consumed ids, attestations and crossings, crossing grants, tools | twelve pure transitions |
| Driver | `kernel.rs`, `traits.rs` | kernel state, sequence number, event store | `apply` around each transition: append, then commit |
| Native instance | `instance.rs`, `command.rs` | a live instance or a recovery behind a mutex: kernel state, sequence, digest head | `instance_new`, `instance_apply`, `recovery_new`, `recovery_replay`, `recovery_finalize`, and two observations |
| Digest chain | `chain.rs` | the transcript being written | `genesis`, `link` over canonical transcripts |
| Limits | `limits.rs`, `limits.ex` | none | `preflight` of a command, `check_state`, `check_recovery_link` |
| Elixir API, validation and telemetry | `instance.ex`, `validation.ex`, `error.ex`, `telemetry.ex` | none of its own; the attempt a process is in the middle of | `transition/4`: validate, call, classify, emit one event, return; `recover/3` validates a history, replays it and finalizes |
| Host | not in the repository | envelope store, protected anchor, effects | store, anchor, act, crash, recover, as the adapter's README demands |
| Conversions | `wire.rs`, `event.rs`, `enums.rs`, `state.rs` of the adapter | none | lists of a term to the kernel's sets, the kernel's vectors to sorted lists |

### How they interact

A host process calls `ExArgus.Instance` with a command. The Elixir side
validates its shape and calls one native function, which takes the resource's
mutex with `try_lock`, runs `limits::preflight`, the kernel transition and the
digest link, and only then replaces the guarded state. The envelope it returns
is the host's to store; the host then moves its anchor (head and length), and
only then performs the effect. After a crash the host gives the stored
envelopes and the anchor to `recover/3`, which re-executes every command. The
Rust driver of `kernel.rs` is the other embedding of the same transitions: it
appends an event to an `EventStore` before it adopts the new state.

### What is hard here

- *Invocations overlap.* Between the start of an invocation and its
  settlement, the owner ingests, starts other work, answers challenges, receives
  crossings. The gates compare against the worst case of what is in flight, in
  both directions: the new one against the running ones, and the running ones
  against the new one.
- *Monitor mode executes what it would deny,* and must take back the claims of
  every record the bypassed data can reach.
- *Challenges and quarantine* stretch one decision over several commands and
  spend evidence in between.
- *Ids are reused.* An agent id may be delegated again after a revocation that
  left children, records or grants behind.
- *Failure in the middle.* An append whose acknowledgement is lost, a crash
  between envelope, store, anchor and effect, a damaged store, a wrong
  background, a panic that poisons the mutex.
- *Estimates.* The preflight bounds a state it has not computed, and refuses
  settlements, inspections and refills near a limit.
- *Order that must not matter.* The kernel keeps its sets and maps in vectors,
  in the order of insertion, rebuilds them by hand and takes lists from its
  callers as sets; neither its decisions, nor what it shows, nor a digest may
  depend on that order.
- *Bytes without separators.* A digest covers fields of free length that stand
  next to each other.
- *Messages.* Data passes from agent to agent outside the kernel and is declared
  when it is delivered, perhaps late, twice, or by way of a third agent.
- *A caller that vanishes.* The native call finishes whether or not the process
  that made it still lives; the instance has then moved and nobody was told.

`PROJECT.json` lists these as hazards, at the lines where they bite, with the
properties that would catch each one.

### What makes each component correct

- Kernel: everything the owner of a permitted invocation holds or may come to
  hold is fit for that invocation; labels never shrink; the agents form a tree
  along which capabilities only shrink; a cleared agent owns nothing; ids,
  evidence, crossings and grant uses are spent once.
- Driver: the log can always be read back to the history the driver adopted.
- Native instance: envelopes are exactly the links of one chain, whatever the
  callers do; equal heads mean equal states; a recovery has one heir.
- Actions: a reader of the envelopes alone knows what became of every command.
- Transcript: same bytes exactly when same meaning.
- Vectors and projection: the code on vectors is the kernel on sets, and two
  instances with the same sets show the same state.
- Elixir attempts: every accepted command is accounted for by exactly one event,
  or by a caller that was killed or saw an exception; nobody waits for anybody.
- Limits: no accepted command leaves the limits, and nothing is stuck at them.
- Recovery: a host that is up is in the state it anchored; what was acted on is
  recorded; what was accepted can be recovered; recovery completes.

## 2. Modules and how they correspond to the code

    KernelTypes  <-  KernelState  <-  Kernel  <-  KernelSafety  <-  CrossingLedger  <-  Exposure
         ^                              ^             ^   |
         |                           Limits         Audit |
         |                                          INSTANCE InvocationLifecycle
         |
      VecKernel  <-  StateProjection            VecKernel: INSTANCE Kernel
         |
         v
    Collections  <-  Wire  <-  Transcript

    DigestChain  <-  Instance
                 <-  HostRecovery
                 <-  Attempts
    Driver

An arrow `A <- B` says that B extends A; `VecKernel` extends `KernelTypes` and
`Wire`.

**KernelTypes** has the records of `types.rs`, the map operations of
`collections.rs`, and the ceilings of `background.rs`. Identities are constant
sets. A confidentiality level is its rank 0..3 (public to restricted), an integrity
level likewise. `VecMap` is a function on its key set and `VecSet` a set: no
transition reads their order. A map into sets is a total function, empty where
the code has no key; the code reads an absent key as the empty set everywhere
except in the limits, which count keys (see Limits).

**KernelState** has the twelve fields of `KernelState` as variables, and the
helpers: the three `speculative_*` worst cases, `demote_all_of`, and the
`drop_*_of` family.

**Kernel** has one action per transition, under the transition's name, with its
early returns as conjuncts. A refused command changes nothing and is no step. A
transition is atomic in the code (a pure function whose result is adopted as a
whole), and so it is here; interleaving happens between commands. The operators
`check_capability`, `check_clearance`, `check_flow` and `check_integ` are the
four gates; flow and integrity have a strict arm (allow only) and one that
includes the inspect band, and `verdict` is made of both. `ingest_*_hold` and
`cross_holds` protect the running records of an agent that takes data in. The
commands' inputs come from the constants `Snapshots`, `Inspections`,
`Resolutions`, `CrossInputs`, `Provenances` and `GrantSizes`.

**KernelSafety** states the properties. **InvocationLifecycle** is an abstract
specification, without labels, gates or tools: an invocation is fresh, challenged,
running, quarantined or closed; a challenge or a quarantine is left only at the
price of unspent evidence or with the end of its owner. `ImplementsLifecycle` is
the refinement.

**CrossingLedger** adds history variables (releases, uses of a grant, uses of an
attestation). A release under an id that had released before is a record of its own
(`repeated`), so `CrossedOnce` also excludes that the same output is released twice.
They add no step and take none away (`LedgerOnlyWatches`, section 4).

**Exposure** adds, over the ledger, what each agent was exposed to in its present
life, and messages. A message carries what its sender had seen when it was sent
and may be delivered at any later time, to anyone and again, each time as an
`ingest` that names its sender. The kernel sees none of this; its labels have to
cover it. Two duties are the host's, because `ingest` compares with the labels
the source holds at delivery: output reaches an agent when its invocation is
settled, and no message is delivered for a sender that was revoked.

**Audit** has the action each transition reports (`event.rs` and the last lines
of each transition) and an auditor who reads commands and actions only, knows no
policy and evaluates no gate.

**Collections** has `VecSet` and `VecMap` as vectors with the loops of
`collections.rs`: lookups that walk to the end and take the last match, inserts
that replace by key, removals that rebuild. **Wire** has the conversions of
`wire.rs` and `command.rs` that change a value. **VecKernel** is the kernel a
second time, on these vectors and on the lists of the callers, with the helpers
of the kernel's `state.rs` as they iterate (`drop_of`, `drop_edges_of`, `demote_all_of`,
`release`); `MapOf`, `SetsOf` and `RecordsOf` map its state to that of
Kernel. **StateProjection** is `StateN::from_kernel`: every vector sorted, also
inside records. `sort_by` is Rust's stable sort, given the order as a set of
pairs; `utf8` and `tag` give the place of a text and the tag of an enum value.

**Transcript** has the bytes of `chain.rs`: tags, big-endian numbers, length
prefixes, normalised sets, options, and tables of the fields of every struct,
command and action in the order in which they are written. Texts are sequences of
bytes.

**Limits** puts `preflight` in front of each kernel action: the state within its
limits, the command's own values short enough, and one `*_fits` operator per
branch of `check_post_transition`. `Bytes` gives the length of an identity;
`retained_text` adds up the text of each part of the state (`parents_text`,
`pending_text`, `challenges_text`, `grants_text` and the lists of ids). Limits that
follow from the size of an enumeration (capabilities and egress kinds per set)
are left out. `OperatorSpec` adds an operator who takes agents back.

**DigestChain** is the value layer of the adapter. A digest *is* the sequence of
what it covers, so it is free of collisions: that its bytes are unambiguous is
checked in Transcript, and SHA-256 is trusted. The kernel is opaque here, as it is to the adapter.
`apply_without_commit`, `replay`, `anchored` are the native functions'
computations, `validated`, `replay_history`, `recover` those of the Elixir side.

**Instance** makes the native resources shared state. A call that gets the lock
computes, and a second step commits; others may try in between. A caller that
finds the lock taken is refused as busy and takes no step. A panic poisons the
lock for good.

**Attempts** follows Elixir processes through `transition/4` on one handle:
validation, the native call in its two steps, the classification of its error,
the event, the result. A process may be killed between any two of them, and the
call it made goes on; the call may panic under the lock, and the binding may raise.

**HostRecovery** composes a live instance, a store, an anchor and a host. The host is
external: its order of steps is the one the adapter's README demands. A store
may hand back a history that is shortened, extended by a stale envelope,
permuted, duplicated or altered in one field; the anchor is protected, as the
README demands. The effects performed are the sequence of their envelopes.

**Driver** has `Kernel::apply` with a store that succeeds, fails without a trace,
or writes and then reports a failure.

The variants marked *Faulty variant* are plausible bugs, each of which breaks
the property `PROJECT.json` names for it. No specification uses them.

## 3. Runs

No run checks what follows from types alone: only `crossing_enforce` checks
`TypeOK`, because the grant counter could underflow there.

| Run | Question | Bounds, and why they are enough |
| --- | --- | --- |
| `gates_enforce` | Are permitted invocations confined, is evidence used once, does the kernel implement the lifecycle, and do the envelopes tell the state, in enforce mode? | One agent, three invocations, two attestations, three policies: a reader, and two senders that differ in floor and output. Three overlapping records show every order of admission and settlement between two that conflict and a third. One egress kind with three bands is enough: gates quantify over kinds and levels one at a time. |
| `gates_monitor` | Is every record that still claims confinement confined when denied invocations, ingests and crossings are executed, and do the actions say so? | One agent, two invocations, one crossing either way between it and root, a grant of one use; challenges do not exist in this mode. A record, one that endangers it, and a crossing into both. |
| `agent_tree` | Is the tree sound under reuse of ids, with work open? | Root and three agents: a chain of three and a fork, orphans, and their ids delegated again. Two capabilities, one invocation, one attestation. |
| `crossing_enforce` | Are grants, evidence and crossing ids spent once, is nothing laundered, and do labels cover what an agent was exposed to? | Root and one agent, two crossings, two attestations, a grant of one use that may be refilled; root endorses to the agent and both may release unendorsed. The agent may have work in flight, be revoked and be born again. One message under way, which may be delivered any number of times; a chain of deliveries between the two is as long as it needs to be. |
| `crossing_target` | Is `t_conf` the most public level released? | *Violated*, see Findings. |
| `instance` | Do concurrent callers share one chain? | Two callers, three handles, two backgrounds, two commands: enough for two live instances and a recovery, or a recovery with two heirs. Recordings may have one field altered. |
| `attempts` | Is every accepted command accounted for, is a poisoned handle dead, does every attempt end? | Two processes, two commands, one the kernel refuses and one that is invalid, four events, one kill. |
| `host_recovery` | Does a host come up in the state it anchored, and come up at all? | Three commands, three faults, each at any point of the protocol; a crash during the work that follows a recovery included. The content bound is exactly what three commands need. |
| `replay_content` | Is an accepted history always recoverable? | *Violated* with a content bound one below that. |
| `driver` | Can the log be read back? | Three commands, a log of six events, so that each number can be written twice. |
| `limits` | Is the preflight ever too low, and is anything ever stuck at a limit? | Three agents, two invocations, two attestations and crossings, and every capacity at or below what the commands can use, so that each becomes the binding one. |
| `vectors` | Does the code on vectors implement Kernel, does the projection hide the order, are transcripts unambiguous? | Four kinds of behaviour, of which each takes one (`focus`): agents that come and go, two under root, with a grant and a crossing; calls of one agent with two invocations in enforce mode, and in monitor mode, with lists that permute and repeat their members; and transcripts. An order takes two elements to vary and two entries of one map to confuse. The transcripts compared are those that differ from a first one in two neighbouring fields, for every struct, command and action, with texts that are prefixes of one another. |

Named bounds: `MaxUses` (range of a grant counter, u32 in the code), `MaxFaults`,
`MaxLog`, `MaxMail` (messages under way), `MaxEvents`, `MaxKills`,
and in `MCProjection` `AgentsOnly` and `CallsOnly`, which keep the two kinds of
turnover apart and small. The others (`MaxAcceptedSequence`, `MaxReplayContent`,
the capacities of Limits) are the code's own limits, made small. Ids are
consumed and never returned, so the kernel's state space is finite without
further bounds.

Symmetry is used for sets whose members no definition names: invocations,
attestations, crossings, non-root agents, capabilities, handles, callers. It is
declared only in runs without liveness; the temporal properties there
(`LabelsNeverDescend`, `PermitStable`, `OrphanStaysOrphan`,
`ImplementsLifecycle`) are action properties and a refinement without fairness.

Deadlock is checked in the kernel's runs. It is not in `instance`, `attempts`,
`host_recovery` and `driver`, where all commands may have been used up, all handles
poisoned, or the log be full.

**Fairness.** The kernel, the instance and the driver react to callers and have no
fairness: nothing obliges a caller to come. Three properties are about what must
happen.

- `RecoveryCompletes` assumes weak fairness of a recovery that reads the store
  undamaged, under the configured background: a supervisor that retries, and a
  store whose damage is not permanent. The number of faults is bounded, so a host
  does not crash for ever.
- `AttemptsEnd` assumes weak fairness of each process's next step once it has
  started an attempt: the Erlang VM runs a process that is ready, and a native
  function that has begun returns. No fairness is assumed between callers, and
  `try_lock` is why none is needed.
- `NothingIsStuck` assumes, of the command that takes an agent back, weak
  fairness: an operator who wants an agent gone says so until it is. Nothing
  else is assumed to happen.

## 4. Proofs

| Module | Theorem | Says, for all constants |
| --- | --- | --- |
| `KernelProofs` | `TypeCorrect` | `TypeOK` always; a grant counter stays in its range |
| | `TreeSound` | the agents form a tree under root |
| | `CapabilitiesAttenuate` | no child exceeds its active parent |
| | `RevocationClean` | an inactive agent owns nothing |
| | `FlowConfined`, `IntegrityConfined`, `ClearanceConfined` | permitted invocations are confined, in both modes, for any number in flight |
| | `OpenScoped`, `DefaultDeny`, `EvidenceVouchesOnce` | what is open was admitted, is authorized, and is vouched for by evidence of its own |
| | `PermitsStable`, `OrphansStayOrphans`, `LabelsMonotone` | the three action properties: no step restores a permit, adopts an orphan, or shrinks a worst case |
| | `LifecycleImplemented` | the kernel refines `InvocationLifecycle` |
| | `GrantsConserved`, `EvidenceOnce`, `CrossingOnce`, `NothingLaundered` | the ledger of crossings and evidence balances |
| | `ExposureCovered` | labels cover what reached an agent, by any chain of deliveries |
| | `LedgerOnlyWatches` | the ledger neither adds a step nor takes one away: with its new values hidden, its next-state relation specifies the kernel |
| | `ExposureLeavesOutTheUnsent` | the exposure adds no behaviour, and takes away only ingests from a source of which no message is under way |
| | `AuditorKnows` | commands and actions alone tell labels, records, challenges, evidence and grants |
| `LimitsProofs` | `WithinLimitsHolds` | no accepted command leaves a limit, for all capacities and all lengths of identities |
| | `LimitsRefineKernel` | the limited kernel takes only steps of Kernel |
| `VectorProofs` | `VectorsAreSetsHolds` | no vector holds a key or a member twice |
| | `VectorsImplementKernel` | the code on vectors refines Kernel on sets and maps |
| | `ProjectionIsTheStateHolds` | what an observer is shown is a function of those sets and maps |
| `InstanceProofs` | `EnvelopesChained`, `HeadIdentifies`, `HeirUnique` | one chain per resource, whose head identifies its state, and one heir per recovery |
| `AttemptsProofs` | `EventsAccountForTheChainHolds` | every accepted command is accounted for once, for any number of processes, kills and panics |
| | `PoisonIsTerminalHolds` | a poisoned handle never moves again |
| `HostProofs` | `ReadyIsAnchoredHolds` | a host that is up is in the state it anchored, after any number of faults |
| | `EffectsOnceAndRecordedHolds` | no effect is performed unrecorded, twice or out of order |
| | `HistoryRecoverableWithinBound` | an anchored history whose content is within the bound can be recovered |
| `DriverProofs` | `LogCovers` | the log covers the history, for every kernel and every failure |

`KernelProofs` is about Kernel and the modules that extend it; its sections
follow the table, each citing the ones before. `ChainProofs` has no theorem: it holds
the lemmas about histories and heads of `DigestChain` that the three modules about
the adapter share.

*Assumptions.* `RootAssumption` (root is an agent), `ModeAssumption`,
`CeilingAssumption` (ceilings are maps from egress kinds to levels, no order
between allow and inspect), `MaxUsesAssumption`, `InputsAssumption` (commands
carry values of their Rust types), and `NoneAssumption` of KernelTypes (`None`, which
stands for Rust's `Option::None`, is no agent and no attestation).
`LimitsAssumption`: lengths and capacities are naturals, the limits have room for
root, and there is room for all four levels in a set of levels, as in `limits.rs`.
`VecInputsAssumption` is `InputsAssumption` for the lists of a command, with
repetitions allowed; `CapOrder` lists every capability. `OrderAssumption`: different
ids have different places in the order of texts, and different values of an enum different
tags. A place is a natural number because texts have a bounded length.
For the adapter, `ChainAssumption` (bounds are naturals), `KernelAssumption` (the kernel
gives back a state and an action, or refuses; `KernelStates` is the type of its state),
`ErrorAssumption`, the `NoneAssumption` of Instance and `AttemptsAssumption` (an error
or the absence of a value is none of the values), and `HostAssumption`. For the driver
`DriverAssumption`, which is the kernel's again. TLC evaluates each of them in every
run of its module. No set is assumed finite; the limits' proof shows the state finite
(`AllFinite`), because every transition adds finitely many elements.

*Types.* The counter is the interesting field: it is decremented without a test of its
own, and stays above zero because the endorsed branch is taken only with
`remaining > 0` for the same key.

*Tree.* Acyclicity is stated as "no non-empty set of agents with parents is
closed under parent", which is inductive with a set as the only witness: a
delegation adds an edge from an id that is nobody's parent (`delegate` refuses an id
that still has children), a clearing only removes an edge. Subsumption needs
the tree, and cleanliness needs both.

*Confinement.* As gates state it, confinement is not inductive: a settlement turns a
worst case into a fact. Stated over the worst case of the *contained* records
(`Confinement`), it is: a settlement of a contained record moves a level from one
part of the worst case to the other; a settlement of a record that is not
contained demotes every record of the owner; an ingest or a crossing passes the
holds of every record or demotes them all; an admission is checked against the running
records and the running records against it. Each of these is a lemma
(`SettleConfinement`, `ReleaseConfinement`, `DemoteConfinement`,
`AdmitConfinement`, `DropConfinement`, `KeepConfinement`), and the step proof has
one case per action.

*Records.* The three claims about records are inductive together with the types
(`RecordClaims`): every change of the two maps is a removal, a demotion, or an
insertion under an id that was fresh or that moves from one map to the other, and
each is a lemma. A permit's stability needs one fact more, that in enforce mode
every record is contained (`EnforceContains`). Labels need no
invariant beyond types: a settlement either keeps the record or leaves its output in the
labels (`KeepWorstCase`).

*Lifecycle.* The stage and the owner of an invocation are read off the two maps
and the consumed ids, unambiguously only because of `open_scoped`. Steps are then compared one
invocation at a time (`SameLife`): what a step does not touch keeps its stage, what
it touches takes one abstract step, and a revocation closes everything of its agent
at once, as the abstract specification does.

*Ledger and exposure.* `LedgerInv` ties the histories to the kernel's own sets: an
attestation was spent once exactly when it is in `consumed_attestations`, every
release's id is in `consumed_crossings`, and a release to a living incarnation has a
living receiver. With this the four claims are inductive together. `ExposureInv` adds that a
message under way comes from a living agent whose labels still cover it; labels
only grow while an agent lives, which is why a message may be late or come
twice. That an id born again has seen nothing uses `RevocationClean`.

That a history adds nothing is an implication between specifications. That it takes
nothing away would be a statement with hidden variables or `ENABLED`; it is
proved in the form the prover has: `LedgerRecords` is `LedgerNext` with the new values of the
ledger as parameters (`LedgerSpec` is its specification, the first conjunct of
`LedgerOnlyWatches`), and `Spec` is equivalent to the specification in which these
values are hidden by a quantifier, for every value the ledger may hold before the step.
The exposure does take something away, by intent: a delivery needs a message under way.
`ExposureLeavesOutTheUnsent` proves that nothing else is lost, so `ExposureCovered` speaks of
all of the kernel's behaviours but those with an ingest that names a source of which
no message is under way: the host's duty above, and with it the bound `MaxMail`.

*Audit.* The auditor's knowledge *equals* the state it is about, so the invariant is
an equation, and each action's lemma rewrites it: what the auditor does with an
action is what the transition did to the view of the state.

*Instance.* `EnvelopesAreTheChain` is not inductive alone: a commit writes what was computed
when the lock was taken. `InstanceInv` adds that a caller inside holds the lock alone
(`Exclusive`), that what it computed still follows what the slot
holds (`CallsFit`), that every slot was reached from a genesis by accepted links (`ChainsSound`),
and that an heir's recovery is consumed (`HeirsSound`). TLC checked it
on the `instance` model before it was proved. That the head identifies the state
is an induction over the length of the chain, made as a minimal counterexample
(`Least`): the last links of two equal heads are equal, so the chains before them
are a smaller counterexample.

*Driver.* `LogCoversHistory` is inductive with the types: every append is made under the
next number, so it can only replace what is last under a number the driver has
not adopted, until the append that succeeds.

*Limits.* `WithinLimits` is inductive with types and finiteness (`LimitsInv`). Every
measure, a number of entries or a length of text, obeys a few laws: what an
insertion may add, that a removal adds nothing, that a demotion changes nothing.
For every transition the proof compares the reservation the preflight makes with
what the laws allow. It never uses what the preflight reserves for
levels: a set of levels has four members at most (`LevelsAlwaysFit`), so that
reservation (`limits.rs`, `check_cross_post`, see the end of section 5) only refuses
commands that would have fitted.

*Vectors.* A loop of the code is a `FoldLeft`, that is a recursive function on sets of
positions. `LoopExists` and `LoopRuns` give it states, one after each item, and
`PrefixInduction` (by the least counterexample) carries a statement from one state to
the next. This gives one lemma for each method: the entries of its result as a set
(`InsertMap`, `RemoveMap`, `RebuiltMap`, `Released`). With them `VecTypeOK`, which says
that every vector is free of repetitions, is inductive, and each transition is
compared with that of Kernel on `MapOf`, `SetsOf` and `RecordsOf`. The property
`ImplementsKernel` of the `vectors` run is `VectorsImplementKernel` with the
restriction to one kind of behaviour.

*Projection.* A strict order has one ascending list of a finite set (`AscendingOnce`), a
stable sort exists (`PlacesExist`, by insertion of one place after another), and
sorting a vector without repetitions gives that list (`SortAscends`). Then
everything shown depends on the contents of a vector only. For the maps into sets
this is the state only if no key is left with an empty set: `NoneLeftBehind`, inductive because a
set is only ever extended and `clear_agent` removes the key. Root is never
cleared and keeps its entry.

*Attempts.* The property counts: one event, one process still to report, or one
silence per number. `AttemptsInv` splits that into *not twice*, *not too much* and *not too
little*, and adds that whoever is inside holds the lock alone and computed the
successor of the present state (`LockHeld`). Poison is terminal because a poisoned
lock leaves nobody inside.

*Host.* `HostInv` says that the anchored part of the store replays to the anchored
state (`AnchorReplays`), how far a command has come in each phase (`Progress`), and that an
effect yet to come has none behind it. A recovery trusts nothing of
what the store hands back: any history that replays to the anchored head leads to the
anchored state, because a head determines the state it stands for (`HeadDetermines`
of `ChainProofs`). `HistoryRecoverable` holds up to the content bound, and this is the
exact statement: beyond it, it is false (finding 2).

*Only model-checked:*

- liveness (`RecoveryCompletes`, `AttemptsEnd`, `NothingIsStuck`), which needs
  fairness and ENABLED;
- `TranscriptIsUnambiguous`: that a table of encoders is injective on texts of any
  length is an induction over nested data, which needs an induction theorem with an operator
  as parameter. The run compares transcripts that differ in neighbouring fields;
- `HistoryRecoverable` beyond the content bound, and the properties of the two runs that are
  violated, which no theorem can state.

## 5. Findings

1. **Direction of the declassification target.** `types.rs` calls `t_conf` the
   "most-public target confidentiality"; `cross_output` accepts any released level at
   or *below* it, so a release may be more public than its target
   (`crossing_target`).
2. **Replay content is bounded only at recovery.** The adapter's README lists the
   bound of 64 MiB among limits that are "checked before commit"; only
   `Validation.recovery` enforces it, so a host can accept, store and anchor a
   history it can never recover (`replay_content`).

Two observations are not findings, because the documentation promises no more
than a typed refusal at a limit. The preflight takes every crossing to add at
least one level (`limits.rs`, `check_cross_post`), so a receiver with all four
levels is refused each one, though nothing would be added. And it counts the
refill of a grant as a new key and the settlement of an invocation as new text, so
near a limit both may be refused; `NothingIsStuck` shows the way out.

## 6. Not modelled

- SHA-256: external, trusted to have no collisions.
- The Elixir struct definitions, the wrappers that build one command each, and
  the validation of field types: inputs are well typed here. Of the conversions
  those that only rename (an id for its text, an enum for the enum of the same
  name) are the identity on what is modelled.
- Error codes, except for the class that decides what a caller and the telemetry
  are told; durations in events.
- The names and the parsing of capabilities, and the builder of the background:
  data that no transition depends on.
- The Lean developments, Kav and the conformance vectors: not running code.
- The scheduler of the Erlang VM: a native call is two steps of its caller, which
  may be arbitrarily far apart.

## 7. Plan

Done, in this order: kernel (types, state, transitions, properties), lifecycle
refinement, crossing ledger, proofs of types, tree and confinement, digest chain,
instances, host and recovery, driver with its proof, limits; then vectors, wire and
projection with their refinement of the kernel, transcripts, attempts and
telemetry, exposure and messages, actions and auditor, progress at the limits.

Then the proofs: records, action properties and the lifecycle refinement; ledger
and exposure; the auditor; the instance and its chain; the host; the attempts; the
limits; the vectors, their refinement of the kernel and their projection.

What is left is outside the prover: liveness, and the injectivity of the transcripts.

`Instance` is not composed with the full kernel: the adapter treats a transition
as a function that refuses or gives back a state and an action, and that is what
`DigestChain` and `Driver` take as a parameter.
