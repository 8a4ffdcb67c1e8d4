# A TLA+ model of TCPunch

TCPunch lets two clients behind NATs find each other: both connect to a
rendezvous server and name the same *pairing name*; the server tells each the
other's public address; the clients then connect to each other directly. This
directory holds TLA+ modules that model the rendezvous server written in Rust,
its wire protocol and the C++ client, TLC configurations that check them on small
instances, and proofs that TLAPS checks for every size. Paths below are relative
to `src/`.

## The system and what is modelled

| Part | Source | Module | Status |
|------|--------|--------|--------|
| Connection handler: one task per client | `server/rust/src/server.rs` (`handle_connection`, metrics) | `Handler` | modelled |
| In-memory registry and its cleanup task | `server/rust/src/registry.rs` (`InMemoryRegistry`) | `InMemoryRegistry`, `Rendezvous` | modelled |
| Redis registry of several servers | `server/rust/src/registry.rs` (`RedisRegistry`) | `RedisRegistry`, `RedisRendezvous` | modelled |
| What a registry promises | the two above | `Matchmaker` | abstract specification |
| Accept loop, connection limit, graceful shutdown | `server.rs` (`run_server`), `main.rs` | `ServerLifecycle` | modelled |
| Wire protocol | `protocol.rs`, `common/utils.h` | `Protocol`, `Session` | modelled |
| Health and metrics endpoints | `health.rs`, `ServerMetrics::snapshot` | `Health` | modelled, but for the numbers they report |
| C++ client (`pair`, listener thread) | `client/tcpunch.cpp` | `HolePunch` | modelled |
| C++ server (answers each client with its own address) | `server/hole_punching_server.cpp` | `HolePunch` | its reply only |
| Command line, logging | `main.rs`, `lib.rs` | | no state, not modelled |

How they interact: `run_server` accepts a connection and spawns a task. The
task reads one request and calls `register(name, address, token)` of the
registry that `main` chose. `register` either takes the registration of a
waiting client (*paired*), resumes the client's own registration by its
reconnect token (*resumed*) or makes a new one (*waiting*). A waiting task tells
its client to wait and then waits for an address on a oneshot channel whose
sender is in the registry; when its timer fires it calls `unregister`. A cleanup
task removes registrations that have expired. On SIGTERM `main` stops the accept
loop, waits until no handler is running, at most 30 seconds, and exits. The C++
client is older than the Rust server: it talks to the C++ server, with a protocol
of its own, and then does the hole punching itself.

## Modules

**`Handler`** has one action per step of `handle_connection` between two points
at which another task may run, and one per way out. `pc[c]` is where the task of
connection `c` is; `name`, `presented`, `token`, `peer`, `reply` are its request
and its results; `inbox[c]` is what was sent on its channel; `metrics` are the
counters. A connection stands for its task, its address, its channel and the
UUID its task generates, because a task makes at most one of each. The tokens a
client may present are those the server has sent to anybody, among them tokens
that have been removed since and tokens of another name.

**`InMemoryRegistry`** extends it with `register`, `unregister` and
`cleanup_expired`: `pairings`, `tokens`, `entry[c]` (an entry a task has removed
and still owns) and `cleaner` (the shard the cleanup holds). One action is one
operation on one map. Where the code keeps a DashMap guard across a second map
operation the model has a lock: `register` keeps the guard of `tokens.get` while
it waits for `pairings.get_mut` (`pc = "resume"`), `cleanup_expired` keeps a
shard of `pairings` while it waits for `tokens.remove` (`cleaner`). Each key has
a shard of its own. In a DashMap several keys share one, which only blocks more and
so takes nothing from the invariants; for liveness it matters that the lock cycle of
`RendezvousWaitEnds` can then also form between different names and tokens, and shut
out names that merely share a shard. Time is left out: any entry may have expired
and any timer may fire, however slow tasks are.

**`Rendezvous`** composes the two and states the properties. **`Matchmaker`** is
the promise: a client may offer itself under a name, an open offer may be
withdrawn or taken by one other client of the name, and only a client that was
taken hears of its partner, who is the one that took it. `Rendezvous` maps
`offer` to the entries in `pairings` and `partner` to `peer`.
**`RendezvousInv`** is the inductive invariant.

**`RedisRegistry`** extends `Handler` with the Redis-backed calls: `store` and
`ttl` are Redis (external; all keys get the same TTL, so they expire in the order
they were last set: `ttl[k]` is the set of keys that expire before `k`), `local` is `local_waiters` of each server, `sweep` and
`drop` are the progress of its cleanup, `home[c]` the server a connection is made
to. One action is one command or one operation on `local_waiters`. With
`Faults = TRUE` any command may fail, executed or not. **`RedisRendezvous`**
composes it with the handlers of all servers and lets the servers in `Crashing`
crash: their tasks are lost and their `local_waiters` gone, their keys stay in
Redis. A restarted server is a new member of `Server`, as `server_id` is new.

**`ServerLifecycle`** has the accept loop (binding, its `select!`, a failing
accept, the load of the counter, the decision), the spawned tasks reduced to start
and end, and `main` from the signal to the end of the process. `unstarted` is a
history variable: how many tasks had not started at that load. A connection holds one
of `MaxFiles` descriptors; without one `accept()` fails and the connection stays in
the backlog. Everything but `main` itself needs one of `Workers` threads. A DashMap
lock blocks its thread and not its task, so the lock cycle takes two of them
(`LockCycle`), and every later call on those shards one more (`HandlerBlocks`,
`HealthBlocks`); `held` counts them and `stuck` are the handlers among them. `main`
returns (`Return`) before the process ends (`Exit`): the drop of the runtime that
`#[tokio::main]` writes around it waits for threads that are blocked.

**`Health`** puts a prober beside `Rendezvous`. A handler of `health.rs` reads the
counters and `active_count()` in its own order; `active_count()` is `len()` of the
map, which waits for every shard in turn.

**`Protocol`** holds the functions that build and parse requests and responses, in
Rust and in C++, as operators over sequences of bytes; the sizes of the fields are
constants. `IsUtf8` is Rust's check in full, characters of up to four bytes,
overlong forms and surrogates included. Uuids are ASCII strings of a fixed length and
print as themselves.
**`Session`** is one client, Rust or C++, and `handle_connection` as
that client sees it: TCP delivers the bytes in pieces and may break, a handler that
returns drops its stream, so that the client reads what is left and then the end, and
a handler may hang in `register` or `unregister` (`Hang`). After a broken connection
or a TIMEOUT the client connects again with the token it has heard, after an ERROR with
none. The client's loop is not among the sources: it is modelled from the functions
they offer it and from the loop that `server/rust/CLIENT_MIGRATION.md:188-252` writes
out.

**`HolePunch`** has `pair()` and `peer_listen()` of several processes. One action
lies between two accesses to the two globals or two system calls that matter. TCP
with its backlog, the NATs (which keep port numbers and may filter what was not asked
for), hosts that nobody has introduced and that connect to a listener where no NAT
filters (`Visit`) and the introduction of two clients are external: in the C++ server that code is
commented out, so it is modelled from what `pair()` waits for. A listener thread
whose call is over reads its port from a dead stack frame, and may find its own
port, that of a later call, or anything else. `CleanSpec` is the same system with
callers that call `pair()` again only when no listener thread of an earlier call is
left.

`MC*` modules add symmetry sets. Operators whose comment begins with "Mutant of"
are deliberately wrong variants of the definition that follows: put in its place,
each breaks a property, which shows that the property depends on that code.

## What the runs show

| Run | Instance | Checks |
|-----|----------|--------|
| `RendezvousSafety` | 3 connections, 2 names | types; a notification is mutual; no client is matched twice; no notification is lost on a listener; a waiting client can resume; nobody is paired with itself; the active counter is exact; the inductive invariant |
| `RendezvousLiveness` | 2 connections, 2 names, a prober | `Rendezvous` implements `Matchmaker`; every handler returns, every registration leaves and every health probe is answered, unless the lock cycle below has formed |
| `RedisServers` | 3 connections, 1 name, 2 servers | types; no client is matched twice; the inductive invariants behind that and behind resuming |
| `RedisFaults` | 2 connections, 1 name, 2 servers, failing commands, one server that may crash | a waiting client finds by its token the registration it made, while that is in Redis and nobody has resumed it; every handler of a live server returns; no channel stays in `local_waiters`; no registration of a crashed server stays in Redis |
| `Lifecycle` | 3 clients, limit 1, 2 descriptors, 3 workers | the counter is exact and does not wrap; the drain never overlooks a running handler; the limit is exceeded only by tasks that had not started when the counter was read; everyone who connects is served or closed, unless from some time on no worker or no descriptor is left; shutdown ends the process, even if the listener could not be bound, unless the lock cycle has workers |
| `Session` | name fields of 4 bytes, tokens of 3, 2 connections of one client | a name arrives as sent, or cut where the field ends; every ERROR has a cause, and none goes to a client that was given a token on this connection; the token of a response is the one the next request presents; responses are heard as written, however TCP cuts them; whoever sees the connection end in order has heard all of them; the inductive invariant behind these; every connection ends, unless its handler hangs |
| `HolePunch` | 2 processes, two calls of `pair()` each, the second when no listener of the first is left, every combination of filtering NATs, a stranger | the socket returned is a connection of this call to its peer or, where no NAT filters, to the stranger, with the inductive invariant behind it; two calls that know each other both return, unless the backlog of a listener is full |

Three connections are what the races of the matching need: one that waits, one
that takes it and one that registers, resumes or times out in between. For
termination two are enough: one that holds or removes what the other waits for. Two
names separate tokens of one name from entries of another. In `RedisFaults` the
constraint `ChosenFirst` leaves out assignments of connections to servers that are
renamings of others. In `Lifecycle` two descriptors are one fewer than there are
clients, so that `accept()` fails while handlers run, and three workers are one more
than the lock cycle takes, so that the server goes on with what is left or loses that
too. The fields of `Session` are as small as they can be for names
that fit, that just do not fit and that are cut inside a character of two, three or
four bytes; the two piece sizes split requests and responses at different places, and
two connections are one reconnect. In `HolePunch` the second call is the one that meets
what the first has left in the globals; `HolePunchAgain` lets it come at any time,
listeners left over or not. One stranger is enough to come before, between or after the
connections of the peers, and a backlog of two is what Linux makes of `listen(.., 1)`. Except in `Session`, deadlock is not
reported, because a system whose finitely many clients have all been served stops;
that nothing stops earlier is what the liveness properties check.

**Fairness.** Weak fairness of every task (the runtime polls it, and both
timeouts fire), of the cleanup task, of Redis expiry and of the handler of a probe.
No client is obliged to connect, no signal to come, no server to crash, and in
`ServerLifecycle` no handler to end, no `accept()` to fail and, once the lock cycle has
every worker, nothing but `main` to go on. In `Session` the handler's own steps are
fair, its two timers among them, and so is the client that reads what TCP has
for it; nothing makes the request arrive, a peer come or a hung handler go on. In
`HolePunch` the threads are fair, and so is the arrival of a SYN that no NAT drops and
that the backlog has room for, since TCP sends it again; the server and its
introductions are not. The connections of a run are finitely many: that a task is
never starved by an endless stream of later clients is an assumption about the
runtime and the locks, which are not fair by contract.

### Where the code differs from what it says

Each of these runs ends in a counterexample to what a comment or the client
documentation says:

| Run | What happens |
|-----|--------------|
| `RendezvousKept` | two clients of a name both find nobody (`remove`) and both insert: the registration of one that was told WAITING is dropped. `unregister`, which removes the entry before it looks at the token, does the same to a client that registered in the meantime |
| `RendezvousWaitEnds` | `register` and `cleanup_expired` take the guards of the two maps in opposite order and lock each other, and every later call for the name, out |
| `RedisPeerTold` | a client whose address was given away is not told of the other: nobody subscribes to the channel on which another server notifies it, on its own server it can be taken before its channel is in `local_waiters`, and `local_waiters` is keyed by name, so that a third client gets the notification |
| `LifecycleDrain` | "All connections drained" while a connection is accepted and its task has not started |
| `HolePunchAgain` | a call of `pair()` leaves its listener thread behind when it times out or connects first; in the next call that thread can accept a connection of the earlier pairing and overwrite `accepting_socket`, so that `pair()` returns it |

The models also contain the following behaviours, which have no run of their own:
a timer that fires while a peer takes the entry leaves one client PAIRED and the
other with TIMEOUT; a peer that takes an entry before its token is in `tokens`
leaves the token in the map for ever; with Redis, a resume renews the TTL of the
pairing key and not that of the token, so a later reconnect can take the client's
own registration. An unknown or expired token is registered afresh
(`registry.rs:153-156`), where `CLIENT_MIGRATION.md:51` and `:526` expect ERROR. The
size of a response is 50 bytes; `protocol.rs:10` and `CLIENT_MIGRATION.md:10`, `:29`
and `:108` say 51, and a client that waits for 51 sees the end of the stream in the
middle of a response (the mutant of `HeardOut`). When the lock cycle holds worker
threads, `main` returns after the signal and the process may never end
(`ShutdownCompletes` says so much and no more). Where no NAT filters, `pair()` returns
whatever connection its listener accepted first, since nothing compares it with the
address of the peer. A listener that could not
be bound is noticed by nobody, and `/readyz` answers "ready" all the same. When
`pair()` is called again at any time `PairReturns` fails too: a left-over listener sets the flag, and
`pair()` joins a thread of its own that never accepts.

## What is proved

For every finite set of connections and every set of names (`None` being a value
of neither):

* `RendezvousProofs`: `Spec => []IInv`, and from it the safety properties of the
  first run. `IInv` is a conjunction of parts, each inductive given those before:
  - `TypeOK` and `PcInv`: what the variables of a task are at each `pc`;
  - `MatchInv` (`RendezvousMatching`): the address and the channel in an entry
    belong to one connection, which nobody has been matched with; a task that
    has taken an entry is matched with the connection in it; a match by
    notification goes back to a match by taking. Mutuality, `MatchedOnce` and
    `ClaimedWaiterHears` are inductive only together with these;
  - `TokenInv` (`RendezvousTokens`): which tokens live entries have, which are
    about to be removed by which task, and which a client can have been sent.
    `TokenKnown` needs that a token about to be removed is no live entry's;
    `NoSelfPairing` needs that a token whose resume has failed can never be that
    of an entry again;
  - `ActiveCountsRunning`.
  Its second half is the refinement, `Spec => ImplementsMatchmaker`. `MatchInv`
  supplies what the mapping needs: the one that is taken has not been taken before,
  and the one that hears was taken by the one it hears of.
* `RedisProofs`: with any number of servers, with failing commands, expiry and
  crashes, `Spec => []MatchedOnce`, from `RedisMatchInv`: a registration in Redis
  is of a client that offered itself under that name and was given to nobody, and
  a client whose address was sent on a channel was given to nobody else. Without
  the second part a notification that goes astray, which the code allows, could
  not be told from a duplicated one. The types this part needs leave out `ttl` and
  the token keys.
  `Spec => []TypeOK` has these too: a key is in `ttl` exactly when it is set, and
  the order of expiry is one.
* `RedisTokenProofs`: from these types `Spec => []TokenKnown`, by way of
  `RedisTokenInv`: a token in use has been issued by its task (`TokensIssued`); it
  belongs to one name, in the keys and in the tasks (`TokenNames`); and while Redis
  holds the registration a client made itself, nobody else has its token or is about
  to delete its token key, and the token key expires after the pairing key
  (`OwnRegistrations`). The last part is what a resume destroys, since it sets the
  pairing key again and not the token key; so the theorem is about the registration
  the client made, not about one it has resumed.
* `LifecycleProofs`: for any limit, `Spec => []CounterInv`, and from it
  `DrainSeesEveryHandler` and `OvershootIsUnstarted`. `CounterInv` has that the
  counter is the number of running handlers until `main` returns, that afterwards the
  only handlers left are those that block a worker, and that while the
  loop decides the tasks are no more than when it loaded the counter. The types
  come with it. The limit, the number of descriptors and that of workers are arbitrary.
* `SessionProofs`: for all field sizes, names, tokens and addresses, all sizes of
  the pieces TCP delivers and any number of connections, `Spec => []SessionInv`, and
  from it `NameArrives`, `RefusedForCause`, `TokenComesBack`, `HeardAsSaid` and
  `HeardOut`. The
  first half are lemmas about the operators of `Protocol`: what comes out of a field
  (`FieldText`), that UTF-8 text stays valid when it is cut before a zero byte
  (`CutUtf8`), that the parser always gives a
  request or an error (`RequestIsSomething`), where the fields of a request and of a response are
  (`RequestLayout`, `ResponseLayout`), and that parsing undoes writing, in both
  languages (`RequestParsed`, `AddressComesBack`, `CodeComesBack`,
  `ResponseComesBack`). The second half is the invariant. Its conjuncts say that the
  bytes the server has read and those under way are the request, until it is parsed
  (`RequestInv`); that the bytes the client has and those under way are the responses
  it has not parsed, or the first of them when the connection has broken
  (`ResponseInv`); what the task has said at each point (`TaskInv`); and that the
  token kept is the token told. `HeardAsSaid` alone is not inductive: that the next
  whole block of bytes is the next response needs the two streams.
* `HolePunchProofs`: for any processes, strangers and number of calls, a process that
  calls `pair()` only when the listeners of its earlier calls are over gets from each
  call a connection of that call's port: to its peer if its NAT filters, and otherwise
  to its peer or to a stranger, whatever the others do (`CarefulCallerIsServed`); so
  `CleanSpec => []SocketIsPeers`, and `Spec => []SocketIsPeers` with one call per
  process. `PunchInv` says which connections TCP can have made, and that those with
  strangers end where no NAT filters (`TcpInv`), and for each process that only the
  thread of the current call can have written the globals (`CallInv`).
  `HolePunchAgain`, which has no strangers, shows that the condition on the caller is
  needed.

Assumptions: connections are finitely many where something is counted, names and
connections differ from each other (they are keys of one Redis) and from `None`. In
`Protocol` and `Session` the fields have room for their terminator, strings are
bytes, a Uuid is ASCII and fills its field up to the terminator, an address has
4 or 16 bytes and a port that is not 0, `None` is no request and no error, and TCP delivers at least one byte at a time.

Most actions change nothing a conjunct speaks about; `Quiet` and `TokenQuiet` say
so once, and one lemma each covers all of them. The remaining actions have a step
each, with one step per conjunct below.

Only model-checked: all liveness, `SessionEnds` and `PairReturns` included
(fairness and `ENABLED` are out of the prover's reach). `Protocol` needs no induction
because its parsers are stated through the least index of a zero byte and not by
recursion; that the least index exists is taken from the well-founded order of the
naturals. Leaves that are pure first-order reasoning cite `Zenon`, which takes
less of the prover's memory there than the SMT encoding. `Protocol` and `Session` do not use `SequencesExt`: with all that it
extends in scope the proofs of `Session` take three times as long.

## Not modelled

* Time. Any entry may have expired and any timer may fire, so nothing is said about
  how long a client waits; that a resumed entry keeps its `created_at` and may
  expire early cannot be stated.
* The command line, logging, and the texts and numbers of the health reports.
  `active_count()` of `RedisRegistry` only counts keys for them.
* Failures for want of resources other than the descriptors of `accept()`: memory,
  threads, `socket()` in the client. Redis itself does not lose keys before they expire.
* IPv6 clients are answered ERROR; that a reset may overtake that answer, because
  their request is never read, is covered in `Session` by the connection breaking.
* The C++ server serves one client at a time with a `recv` that has no timeout, so
  that one silent client stops it, and it never sends the address of a peer, so
  that `pair()` against it never gets past its second `recv`. Both are plain from the source, and a
  model would restate them.
* NATs that change port numbers: the client assumes that they do not.
