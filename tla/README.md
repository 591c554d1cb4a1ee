# identt in TLA+

identt is a Matrix identity server: it lets the owner of an e-mail address or a
telephone number prove that it is theirs, bind it to a Matrix id, and lets
others look the binding up. It keeps everything in RocksDB (or LevelDB) and
replicates a master's transaction log to slaves. This directory models the
parts of it where threads, crashes, lost messages and the clock meet, checks
them with TLC and proves the central invariants with TLAPS.

`PROJECT.json` is the index: components, runs, which definition models which
lines, findings, hazards, theorems.

## The system

| Part | State | Operations | Works with |
|---|---|---|---|
| `StoreTrans` (src/src/store) | `logcounter`, log rows, data rows, `lastslave` | `Commit` = `CommitLog`, `CommitData`, push to the last slave, `AddToCache`; `ReadLog`, `ReadOne` | every service that writes; slaves |
| `StoreCache` | association cache | `AddToCache`, `GetAssoc` | `Commit`, local look-ups |
| `StoreLevel`, `WorkServer` | database handles, counters | `Initialize`, `init`: counters from the last rows, cache from the table | everything, at start |
| `StoreTable` and its tables | rows, unique rows, index rows | `GetOne`, `GetMany`, `AddRecord`, `DelRecord`, `ScanTable` | the services |
| `SyncServer` | role, master, log, counters | `SyncFirst`, `SyncFromMaster`, `CompareLog`, `stop` | the master's `HrpcRemoteEndpointService` |
| `RemoteKeeper` | known hosts, their log counters and times | `AddHost`, `SetHosts`, `HostUpdate`, `MasterUpdate` | `SyncServer`, `HrpcClient` |
| `ValidateService` | sessions, tokens, mails | `RequestToken`, `SubmitToken` | tables, mail |
| `ThreePidService` | associations | `GetValidated3pid`, `Bind3pid` | sessions, invites, mail |
| `InviteService` | invites, ephemeral keys | `StoreInvite` | associations, mail |
| `LookupService` | none | single and bulk look-ups, global or from the cache | associations |
| `MailSmsService`, `GetMail` | outgoing mail | `PendingAction`; fetch, send | external senders |
| `BlobDataService`, `AccessKeyService`, `PubKeyService` | access keys, blobs, keys | find or insert, read | tables, sessions |
| Query layer (src/include/query) | none | find the endpoint, parse, refuse, act here or forward to the master, answer | all services |
| `HrpcClient`, `HrpcRemoteEndpointService`, `HrpcMasterEndpointService` | none | `SendToMaster`, `SendToRemote`, and the handlers of what they send | other instances |
| HTTP server (src/include/http) | connections with timers | match method and path, spawn the handler, send the answer, cut a connection | query layer, pool |
| async++ (src/src/async++) | public queue, a deque per thread, sleeping threads | `schedule`, `thread_task_loop`, the destructor | every handler |

Each handler is a task of async++'s pool, and both servers of an instance (for
clients and for other instances) use the same pool. A handler that calls another
instance keeps its thread until the answer comes. The shared values of
`SharedTable` have a lock each; nothing locks a whole request or a whole commit.
A request reads several tables, builds one transaction and calls `Commit`.

What is hard, and what makes each part correct:

* **Commit.** Log and data are written one after the other by many threads, and
  either write may fail or the process die in between. Rows, cache and pushes
  must never be ahead of the log; a record must never be replaced; replaying the
  log must give the data.
* **Replication.** Replies are lost, instances crash with commits in flight,
  slaves copy from slaves, a master disappears. Logs must agree where both have a
  record, slaves must have no gaps, be behind, and catch up.
* **Tables.** Unique keys are checked before the commit. Secondary rows must
  neither dangle nor mislead, and a unique key should be unique.
* **Sessions.** The clock is read before the tables, and whole records are
  written back. Token, mail and session must fit together; a validation must last.
* **Binding.** Three tables and a cache that other requests change meanwhile.
  Local and global associations must agree, invites must reach whoever binds.
* **Mail.** Ids are taken before the commit and come up again after a restart. No
  mail may be lost or passed over.
* **The pool.** Threads push, pop and steal without a lock, go to sleep while
  others publish work, and are joined while tasks schedule tasks. Every task must
  run once, and none may wait while all threads sleep.
* **Calls.** A client asks one instance, which may ask another, which pushes to a
  third; connections are cut, instances crash, start, refer each other to a master
  and elect one, and each call holds a thread. A call must take effect at most
  once, an ok must be true, tables that are passed on must not become false,
  and nothing may wait for ever.

## Modules

| Module | Models | Notes |
|---|---|---|
| `TransLog` | the log as a function from ids to records; `Put`, `LastKey`, `ReadLog` | used by the modules of the store, of replication and of the services |
| `StoreTrans` | `Commit` on concurrent threads, restart | one action per step between which another thread can run: `TakeLogId`, `PutLog`, `WriteBatch`, `Push`/`PushFails`, `UnsetLastslave`, `AddToCache`; `WriteFails`, `SlaveInSync`, `Restart` |
| `SyncServer` | replication between instances | phases of an instance: down, first, register, compare, sync, serving |
| `ReplicatedLog` | abstract: one growing log and replicas that copy its beginning | `SyncServer` implements it |
| `StoreTable` | find or insert a record with a unique and an index key | `Find`, `AddRecord`, `Commit`, `Restart`, `Promote` |
| `Validation` | `ValidateService` and the check of a session | clock, table, table, commit are separate steps; times wrap at `Word` |
| `Binding` | `Bind3pid`, `StoreInvite`, look-ups | index scans by prefix; cache as a step of its own, which throws at a new unique key that has the length of a primary key (`Opaque`) |
| `Mail` | outgoing mail, `PendingAction`, `GetMail` | a reader that follows the cursor is external |
| `WorkPool` | abstract: a task is started once, after it was given, and ends after that (`Spec`); everything that is given ends (`Live`) | `ThreadPool` implements both |
| `ThreadPool` | async++'s scheduler: `push`, `pop` and `steal` in the steps of their atomic operations, `schedule`, `thread_task_loop`, the destructor | what runs under the pool's mutex is one action; a deque's array doubles when it is full; external tasks enter by `Submit` |
| `Query` | each endpoint: method, pattern, what it refuses before it acts, where it acts; `find_resource` | no state; `Cluster` takes its endpoints from it |
| `ClientCalls` | abstract: what a client may conclude from an answer, or from none | `Cluster` implements it |
| `Cluster` | the composition: `Query`'s endpoints on instances that forward, push, register, tell each other of hosts and elect, each with one pool | an action per handler and per return of a call; `Timeout` is the content timer |
| `*Proofs` | theorems about the module they are named after | |
| `MC*` | constants for TLC | |

`Cluster` joins what the other modules have apart: its phases are `SyncServer`'s
with "first", "register" and "compare" in one, its endpoints are `Query`'s, its
queue per instance is what `ThreadPool` is shown to be (`WorkPool`), and a commit
at the master is a step that counts (`applied`) and pushes, as `StoreTrans` has it
in detail. What the log holds, and restarts, are left to `SyncServer`. The action
of a call on the master (`Act`) may refuse; fail in `CommitLog`, with a log id
gone; fail in `CommitData`, with the record in the log; or commit, after which
`Respond` answers ok, or an error when `AddToCache` has thrown. The effect of a
call is its record in the log, which slaves replay. A poll of a slave (`Poll`) brings
it on by some records; the polls of the slaves in `Flaky` may fail although the
master serves, and ten and twenty failures have their consequences whatever the
reason is. The bind handlers post their result to a homeserver before they answer;
this ends within 3 s, throws nothing and changes nothing on an instance, and is part
of the time until `Respond` or `Forwarded`.

`ClientCalls` is the promise to a client. A call takes effect at most once. *ok*: it
has taken effect. *refused*, a 404: it has not and will not. *failed*, an error
answer over connections that held: it has taken effect or never will, but the client
does not know which, since errors come from before the effect and from after it.
*lost*, a connection that was cut, to the client or from its instance to the master:
it may still happen.

Names of operators are the names in the code where there is one. Operators whose
comment calls them a mutant are changed copies of the definition after them:
plausible mistakes that the properties have to notice. They are in no `Next`.

Abstractions. A record's content is what the properties tell apart: a batch is a
function from rows to values, a log record is its time stamp, a session key
stands for medium, address and client secret, a token is the time it was made at.
A `WriteBatch` is atomic, as RocksDB makes it. A database survives a crash as it
was: writes are not lost after they return (the code uses default write options;
losing the end of the write-ahead log with the machine is not modelled).
`GetOne` reads two rows, and `AddRecord` reads again what was just read: each is
one step with the read before it. The election is that of an instance that has
heard nothing since the outage began: while a slave is in its loop it does not
serve (see `sync_serves`), so that no host can have reported to it. This assumes that
the clocks of the hosts agree: the time of an entry is that of the host that
registered (`HrpcRemoteEndpointService.hpp:108`), the time it is compared with is
that of the instance that elects (`SyncServer.cc:277`). With a clock that is ahead by
more than the time since the registration, `MasterUpdate` would take that host for
the master without asking whether it is one (`RemoteKeeper.cc:151-165`).

## Runs

All instances are small enough to be searched completely.

| Run | Result | What it shows |
|---|---|---|
| `commit_faults` | holds | two threads, three log ids, failing writes, crash anywhere: rows, cached associations and pushes are in the log (`WriteAhead`, `PushedIsLogged`); records are never replaced (`LogImmutable`); a gap that stays comes from a commit that failed (`GapsAreAbandoned`) |
| `replay_race` | **violated** `DataIsReplay` | two commits write the log in one order and the data in the other |
| `sync_agree` | holds | with every fault and elections: slaves have no gaps and records are never replaced (`SlaveHasNoGap`, `LogImmutable`); until the first election logs agree and slaves are behind (`LogAgreement`, `SlaveNotAhead`), and the instances implement `ReplicatedLog` |
| `sync_live` | holds | a started slave catches up |
| `sync_serves` | **violated** `SlaveServes` | a slave in its loop never starts its servers |
| `table_race` | holds | secondary rows are sound and complete with overlapping requests, crashes, promotions |
| `validation_race` | holds | one thread or two: the last mail of a session carries the stored token, only a mailed token validates, "expired" is true or the session is newer than the request; with one thread validations last and every session can be validated |
| `bind_race` | holds | one thread or two: local and global associations stay paired, invites wait for a bind; with one thread both look-ups find what is bound, but for two exceptions (below), and invites to bound addresses are sent. One of the two addresses is the beginning of the other, so that index scans find too much, and its unique key is one that `AddToCache` throws at |
| `mail_faults` | holds | no mail is overwritten when ids come up again, none is deleted unsent unless it got the id of one that was sent, the cursor passes none that is in the table |
| `thread_pool` | holds | two threads, five tasks, the destructor at any time: each task is run once, after it was scheduled (`ImplementsWorkPool`), and returns (`TasksEnd`), none waits in the public queue while all threads sleep (`PublicTaskIsSeen`), the destructor ends (`ShutdownJoins`) and leaves nothing (`JoinedIsDrained`) |
| `cluster` | holds | three instances, one thread each, a client's call to any endpoint of any of them: the promise to clients (`ImplementsClientCalls`), `FollowsAMaster`, `TablesAreTrue`; nothing hangs (`NothingHangs`) |
| `query_get` | **violated** `DocumentedCallIsFound` | a documented GET with parameters is answered 404 |

Each violated property states what a comment, message or document of the
repository says; the finding in `PROJECT.json` quotes it.

Some properties say exactly how far the code goes, and the exception in their
statement is what it allows. `ValidatedStays`, `SessionsCanBeValidated`,
`LookupsAgree` and `InviteDelivered` are about a server with one thread (`Alone`):
requests that overlap can undo a validation, make two sessions or two
associations for one address, or let an invite and a bind pass each other.
`ExpiredIsExpired` admits a session stored after the request had read the clock,
whose age wraps around. `DeletedIsSent` admits an id that is used again after a
restart. `CursorSkipsNothing` is about mails that are in the table when the
reader asks: one committed after a later id is passed over. `LogAgreement`
ends with the first election, after which two masters may write.
`LookupsAgree` has two exceptions. The global look-up of an address that others start
with may find one of theirs. The local look-up misses an association whose first
bind ended in the exception of `AddToCache`, until the next bind or restart: the rows
are written, the client gets an error, and the cache has nothing; it never has
another value. `ImplementsClientCalls` tells an ok from errors and errors from lost
connections as described above; it does not say that an error means "not done",
because it does not.

The hazards of `PROJECT.json` that name no property are those where the code goes
wrong, or may, in a way that the models show and no property forbids; their notes
say what happens.

### Bounds

Two threads are the fewest that overlap. The number of threads is a setting of
the build (`LIBASYNC_NUM_THREADS`); in `Validation` and `Binding` the variable
`pool` is any non-empty set of them, so that one run covers a server with one
thread and with two.

* `StoreTrans`: three log ids allow two commits in flight and one after a restart.
* `SyncServer`: three instances, so that a slave can copy from a slave; two records
  to begin with and two new ones; `Chunk` = 2, with which `ReadLog` returns
  three records at most (its limit is exceeded by one), so that a reply can fall short
  of the log; an election after two failed polls (20 in the code),
  enough for it to come after a failure that passed. With one record to begin
  with a slave would come to have just that one, and `CompareLog` would then ask
  for log id 1, which no log has: it could never synchronise again.
* `StoreTable`: two keys, so that an id handed out twice can meet another key.
* `Validation`: two client secrets, two sessions, two attempts, a lifetime of one
  tick out of two, so that sessions are both reused and renewed; `Word` is a small
  modulus above every time that occurs. States are not told apart by the answers
  of earlier requests, which no action reads, or by what a request asks for that
  can only be answered and changes nothing.
* `Binding`: two addresses, one the beginning of the other, and two Matrix ids;
  ids enough for two pairs of associations and two invites, or for three pairs; the
  shorter address is opaque, the other not, so that both kinds occur.
* `Mail`: up to six mails, two to a reply.
* `ThreadPool`: two tasks from outside, one of which schedules two from inside; one
  of these another. The deque's first array holds one item, so that `push` has to
  make a larger one, and the two threads meet at its last item, as owner and thief.
* `Cluster`: one thread per pool is the worst case for calls that wait for each
  other; three instances make chains (a slave of a slave, a referral) and cycles of
  calls; one client's call at a time of any endpoint, with registrations,
  pushes and the rally of the slaves at the same time; the first master may
  crash, and the polls of one slave may fail while its master serves, so that there
  may be two masters. An instance that registers
  follows two referrals and no more, as in the code.
  More calls and threads are what `ClusterProofs` covers.

Threads, slaves and secrets are symmetric where a cfg says so; liveness runs use
no symmetry.

### Fairness

`SyncServer!FairSpec` assumes weak fairness of an instance's own loop (a call is
sent, answered, applied: `SlaveStep`), of a commit that has its id (`PutLog`),
and that each slave is started at some time. The loops of `SyncFirst` and
`SyncFromMaster` sleep and go on, and a thread in `CommitLog` does not wait for
anything. Nothing is assumed of clients, elections or failures. In `sync_live`
and `sync_serves` no messages are lost and nothing crashes.

`ThreadPool!FairSpec` assumes weak fairness of each thread: the system runs every
thread that can run. Nobody has to submit a task or to stop the pool.

`Cluster!FairSpec` assumes only that, as long as some thread can run or some
content timer can fire, one of them does. That is the least that can be said of
a scheduler, and `NothingHangs` (when an instance is occupied, there comes a time
when none is) needs no more: calls are finitely many. It needs
the timers: handlers that wait for each other's pools are untied only by the
server that cuts the connection. Nothing is assumed of clients, operators and
the loops of slaves.

## Proofs

For every value of the constants, so for any number of threads, instances, calls,
keys and ids. Each proof module has an inductive invariant `IInv`, one lemma per
action that keeps it, and the theorems from it. What `IInv` adds to the
properties:

* `StoreTransProofs` (`TypeCorrect`, `LogIsAhead`, `PushFollowsTheLog`,
  `RecordsAreImmutable`, `GapsComeFromFailures`): log ids are
  at most the counter (`LogBelowCounter`), the ids of commits before `PutLog` are
  not in the log and differ from each other (`InFlightFresh`), those after it have
  their batch in the log (`CommitIsLogged`). Without the second, `PutLog` could
  replace a record; the restart keeps it because it abandons all commits and
  starts from the last row (`LastKeyIsLast`), which is never above the old counter
  (`RestartCounter`).
* `StoreTableProofs` (`TypeCorrect`, `SecondaryKeysAreSound`, `RowsStayIndexed`): an
  update has the key of its record (`UpdatesKeepKey`), and the ids of insertions
  differ and are new once `AddRecord` has let them through (`InsertsAreNew`). The
  latter is why the lagging counter of a promoted slave does no harm to other
  records: the promotion ends all requests, and after it `AddRecord` refuses ids
  in use.
* `SyncServerProofs` (`TypeCorrect`, `SlavesHaveNoGap`, `LogsAgree`,
  `SlavesStayBehind`, `RecordsStay`, `Refinement`): ids are at most the counter and
  those of commits under way are new; only masters have commits; until a slave
  serves its counter is its last record; a reply is only with a loop that applies
  it; and before the first election whatever is in a log or in a reply is the
  primary's (`RecordsArePrimarys`). From the last follow agreement and the
  refinement: each step maps to a `Write` of the primary, a `Copy` by a replica, or
  a stutter of `ReplicatedLog`.
* `BindingProofs` (`TypeCorrect`, `PairsStayTogether`, `InvitesAreHeldBack`; with one
  thread `InvitesAreDelivered`, `BothLookupsAgree`): which local association a
  global one belongs to is one to one, and a bind under way has the ids of an
  existing pair or a pair of its own. `AloneInv` adds, for a server with one thread,
  that what the request has read still holds when it writes (`StillHolds`): an
  address then has one association (`OneEach`), the cache has it as soon as the
  bind is over, or nothing of an opaque address (`CacheIsCurrent`), and a bind stamps
  all the invites there are.
  With two threads `StillHolds` is what fails first.
* `ValidationProofs` (`TypeCorrect`, `MailsCarryTheToken`, `OwnershipIsShown`,
  `ExpiryIsReal`; with one thread `AloneNamesItsSessions`, `AloneValidatedStays`): a
  request that has its session holds one of the table, with its key, or a new id
  that nobody else has; a submission that has found its token carries one that was
  mailed. `AloneInv` adds that the only request knows its session as it is.
* `MailProofs` (`MailsStay`, `DeletedIsDone`, `CursorIsExact`): ids about to be
  committed are not in the table, each with one request, and what the reader
  holds when it asks again it has sent.
* `ThreadPoolProofs` (`TypeCorrect`, `PublicTaskSeen`, `JoinedDrained`,
  `PoolImplementsWorkPool`), for any number of threads, any tasks and any size of
  the first array: what a deque holds are the slots from `top` up to `Limit`, which
  is `bottom`, or one more while its owner has lowered `bottom` and not yet decided
  what to do (`DequeIsSound`). A thief that has read `top` has read the task there
  as long as nobody has moved it since (`ThiefIsSound`), and that suffices: the
  exchange fails otherwise. Every scheduled task is in one deque at one place, or in
  the public queue, or was begun (`HeldOnce`, `HeldWaits`, `PublicWaits`,
  `NoneIsLost`), and the list of waiters is that of the threads that sleep without a
  signal (`SleeperIsListed`). A thread that looks for work has emptied its deque
  (`LookerIsEmpty`), which is why nothing is left when all have exited. Assumed of
  the tasks: each is scheduled by one caller (`task_run_handle` is an object made
  for one call of `schedule`).
* `ClusterProofs` (`TypeCorrect`, `EachFollowsAMaster`, `TablesSayWhatWasTrue`,
  `Refinement`): a queued call is in one queue once (`QueuedOnce`); a client's call
  and its forward are where their answers and `applied` say they are (`AskIsTrue`,
  `ForwardIsTrue`): a call that has been applied is never applied again because
  only one handler, the one asked or the one forwarded to, has it to do;
  replies to registrations name a master and messages on the way say what was
  true (`RegistrationsAreTrue`, `MessagesAreTrue`). The refinement maps each
  step to one of `ClientCalls` or a stutter; an error that comes with the effect
  or after it is a `Fail`, and a crash loses the calls its instance was asked
  together. `TypeCorrect` says of the queues that they hold exactly the
  calls that wait, and needs more (`NamesInv`): a call's name is not used again while
  the call is there. A push belongs to an action that is done once
  (`PushesAreNew`); a `HostUpdate` tells no instance twice, and those of earlier
  registrations have lower numbers (`TellsAreNew`); and the call a handler waits for
  is its own (`SubsAreOwn`), so that nobody else misses it when it is forgotten.

The modules about stores and replication each prove `LastKeyIsLast` for themselves:
`LastKey` is the largest id of a non-empty log with bounded ids.

Assumptions are the named `ASSUME`s of the modules, on the constants only; TLC
evaluates them in every run.

Every invariant, action property and safety refinement of the passing runs is a
theorem. Only model-checked are the properties under fairness, which are out of the
prover's reach: `SlaveCatchesUp` (`sync_live`), `TasksEnd` and `ShutdownJoins`
(`thread_pool`), `NothingHangs` (`cluster`); and the three violated properties, for
which TLC's counterexample is the result.

## Not modelled

* The choice of another instance in an election: `RemoteKeeper`'s times. A slave in
  its loop serves no `R_SETINFO`, so that the entries it has are from before the
  loop and, where the hosts' clocks agree, never recent enough.
* The buffer of pushed transactions on a slave and its `SharedMap::Swap`: the
  handler of `R_BUFFTRANS` needs a slave that serves.
* Restarts in `Cluster`; they are in `SyncServer`.
* `ParamLookupService`, which is in the tree and bound to no server.
* Conversions and pure functions on bytes: JSON and protobuf (`ProtoJson`),
  signatures (`SignedJson`, crypto++ calls), address parsing, encodings; and the bulk
  look-ups, which repeat the single one. What they compute is their
  whole content, and nothing the properties tell apart depends on it.
* `DumpDb`, `KeyGen` and the Python scripts: no state that another part shares.
* The parts of async++ no handler uses: continuations, `when_all`, `parallel_for`.
* Third-party code in the tree: rapidjson, cpr, sole, and Simple-Web-Server but for
  its timers and dispatch. It is the larger part of the source by lines, so that
  the modules stand for a small share of the tree and most of what is identt's own.

## Plan

Done, in this order: `TransLog`, `StoreTrans`, `SyncServer` and `ReplicatedLog`,
`StoreTable`, `Validation`, `Binding`, `Mail`, `WorkPool` and `ThreadPool`, `Query`,
`ClientCalls` and `Cluster`; proofs of all but `Query`, which has no state.

Next:

1. A slave that serves, as the code intends: pushes into the buffer,
   `SharedMap::Swap`, `R_SETINFO` with times, and an election that may pick another
   instance and is tried once, composed with `StoreTrans`.
2. Restarts in `Cluster`, with `NamesInv` extended to names that a restarted instance
   uses again.
3. What the liveness runs rest on, as far as it is safety: that a sleeping thread
   with a signal and a call with a free thread can always go on.
