# oscit: models, checks and proofs

oscit is a C++ library that lets programs and user interfaces share a tree of
objects over OSC (Open Sound Control, UDP). A program builds a tree of
`Object`s below a `Root`; `Command`s answer messages about it; on the other
side a `RootProxy` builds a ghost tree of `ObjectProxy`s. This directory models
the library: the parts in which order, interleaving or loss decide whether it is
right as state machines, the values, their texts and their packets as data that
operations transform. Paths below are relative to the root of the repository;
a file without a directory is in `include/oscit/` or `src/`.

## 1. Inventory

| Component (code) | State | Operations | Talks to | What makes it correct |
|---|---|---|---|---|
| Timer (`timer.h`) | `running_`, `should_run_`, `mutex_`, `interval_` | `start`, `stop`, `set_interval`, destructor; the loop | owns a Thread, calls the owner back | one loop at a time, silence after `stop`, `running_` tells the truth |
| Thread, Semaphore (`thread.h`, `semaphore.h`) | `thread_id_`, `semaphore_`, `should_run_`; resources | `start_thread`, `kill`, `quit`, `join`; `acquire`, `release` | pthreads | one body at a time, ready when the start returns; whoever acquires gets |
| ObjectProxy (`object_proxy.h`, `object_proxy.cpp`) | `value_`, `wait_until_`, `latency_`, `to_send_` | `set_value`, `handle_value_change`, `set_attrs`, `adopted`, `reset_connection` | RootProxy, the network | throttled, nothing pending for ever, ends equal to the remote |
| Object, Root dictionary (`object.cpp`, `root.cpp`) | `children_`, `children_vector_`, `parent_`, `url_`, `root_`, `objects_` | `adopt`, `set_parent`, `set_name`, `set_keep_last`, `clear`, `release`, lookup | Root, handles | the five views of one tree agree |
| Signal, Observer (`signal.h`, `observer.h`) | `callbacks_`, `observed_signals_` | `connect`, `send`, `send_once`, `disconnect`, destructors | each other, from any thread | a connection ends on both sides; no list changes under a reader |
| Root and its commands (`root.h`, `root.cpp`, `osc_command.cpp`) | `commands_`, socket, `running_`, `osc_buffer_` | `adopt_command`, `clear`, `send`, `notify_observers`, `listen`, `kill` | threads of the commands | nobody uses a deleted command, `clear` ends every thread |
| Command, meta methods (`command.cpp`, `meta_methods.h`) | `observers_`, `root_proxies_` | `receive`, register, call, reply, error, notify | Root, RootProxy, other programs | whoever calls is answered; replies reach who should see them |
| RootProxy, ProxyFactory (`root_proxy.cpp`, `proxy_factory.cpp`) | the ghost tree, links to command and factory | `handle_reply`, `build_child`, `sync`, `set_command` | Command, ObjectProxy | a mirror: nothing that was not there, nothing missing |
| Service browser (`zeroconf_browser_common.cpp`, `linux/zeroconf_browser.cpp`) | `found_devices_` | found, resolved, removed, `start`, `stop` | Avahi's thread, Command | proxies exist for the devices that exist |
| Service registration (`linux/zeroconf_registration.cpp`) | the name, the group | server and group callbacks, `next_name` | Avahi | the name it reports is the one that is published |
| OscMapCommand, Mapper (`osc_map_command.cpp`, `mapper.rl`) | the two tables of mappings, the port | `receive`, `notify_observers`, `port`, `parse`, `map`, `reverse_map` | Script, OscCommand | the tables change under the mutex; what maps there maps back |
| Script, HashFileMethod, File (`script.cpp`, `hash_file_method.cpp`, `file.cpp`) | `script_`, `next_reload_`, `hash_`, the files | `set_script`, `reload_script`, `trigger`, `update` | the disk, other editors | cache and file agree |
| THash (`thash.h`) | `thash_table_`, `keys_` | `set`, `get`, `remove`, `remove_element`, `clear`, copy, assignment | used by everything above | it is a dictionary with its keys in order |
| Values (`value.h`, `value.cpp`, `value.rl`, `list.h`, `hash.h`, `string.h`) | counted cells shared by copies | `set`, `push_back`, `set_value_at`, `detach`, `deep_merge`, JSON, type tags | everywhere | a copy is not changed through another; what is written is read |
| Url, Location (`url.rl`, `url.h`, `location.h`) | location and path | `parse`, `resolve`, `set_*`, names and parents | the name service, the browser | what is written for a url is read as that url |
| MidiMessage (`midi_message.cpp`) | bytes, cached type | setters, `pack`, `from_s` | JSON, OSC | the status byte and the cached type agree |
| OSC packets (`oscpack/osc/`, `osc_command.cpp`) | the buffer, two cursors, the size slot | every `operator<<`; the readers; values to messages and back | sockets | the two halves of the buffer do not meet; a packet reads back |
| Sockets (`oscpack/ip/posix`, `oscpack/ip/win32`) | listeners, timers, `break_`, the pipe; the UdpSocket | `Attach...`, `Run`, `Break`, `AsynchronousBreak`; `Bind`, `Connect`, `LocalEndpointFor` | the kernel, OscCommand | a break is heard, a datagram received, no timer is lost |
| Handles, reference counts (`object_handle.h`, `c_reference_counted.h`) | `ref_count_` | `retain`, `release`, `hold` | everything | an object held exists |

What is hard here: every command runs a thread, the browser runs one, the timer
runs one, and users call from theirs, so most operations interleave; two objects
that know each other are kept in two lists with two locks; a tree is stored in
five places; values share their contents; the network loses, doubles and
reorders; destructors run while others call; files and services change under the
program. `PROJECT.json` lists these hazards one by one with their line.

## 2. Modules

State machines of components that interact:

| Module | Models | State | Actions |
|---|---|---|---|
| `Timer` | `timer.h`, the parts of `thread.h` it uses | the fields, `cpc`/`lpc`: where each client and each loop is | one per step between two accesses to shared state |
| `ObjectProxy` | the values of `object_proxy.*`, the remote's side of them | the fields, `upc`/`hpc`, two queues of datagrams | `SetValue` and `FinishSet` (user), `Handle...` (command's thread), `Remote...`, `NetworkFails`, `Tick` |
| `ObjectTree` | `object.*`, `object_handle.h`, the dictionary of `root.*` | the fields of every object, who holds it | one per public method, whole (one thread edits) |
| `SignalObserver` | `signal.h`, `observer.h` on `rw_mutex.h` | the two lists, what each thread is doing | one per critical section or turn of a loop under a lock |
| `CommandLife` | adoption, use and end of commands in `root.*`, `osc_command.*` | `commands_`, life of command and thread, `break_` | one per critical section or wait |
| `Discovery` | `zeroconf_browser_common.cpp`, `linux/zeroconf_browser.cpp`, the links of `root_proxy.*`, `proxy_factory.*` and `command.cpp` | the fields of browser, command and proxies; Avahi's events and lookups | one per callback, cut between finding, unlinking and deleting a proxy; one per step of the user's program |
| `Dispatch` | `command.cpp`, `meta_methods.h`, `root_proxy.cpp`, `object_proxy.cpp`, calls in `root.h` | the trees and observers of each node, the mirrors, a bag of messages | `Deliver` receives one message with all that follows; what users do; `Network` loses or doubles |

`Dispatch` composes what `ObjectProxy` and `ObjectTree` look into separately: its
proxies keep of the latency only whether it is known, its trees are edited whole.

What touches the operating system, composed by `MCDevices` (one part at a time;
they share no state):

| Module | Models | Actions |
|---|---|---|
| `Sockets` | the loop of a `SocketReceiveMultiplexer`, posix and win32, and a `UdpSocket` | one per wait, per socket read and per timer called; `AsynchronousBreak` in its two steps; `Arrive`, `Pass`, `Interrupted` |
| `Threads` | `thread.h`, `semaphore.h` | `start_thread` cut at its wait, `Kill`/`Cancel`/`Join` one per read of `thread_id_`; `acquire` one resource at a time |
| `Files` | `script.*`, `hash_file_method.*`, what they use of `file.*` | one per method; somebody else's edits of the files; the clock in seconds |
| `OscMapCommand` | `osc_map_command.*`, with the script's reload in it | the own thread cut where `receive` gives up the lock; `port`, `reply_port`, `script` and notifications of other threads |
| `Registration` | `linux/zeroconf_registration.cpp` | one per callback of Avahi and per change of the daemon |

Data:

| Module | Models | Checked by |
|---|---|---|
| `Dictionary`, `THash`, `Lists` | what users of a hash table rely on (abstract); `thash.h`, which refines it; its list of keys | `library` |
| `Values`, `ValueHeap` | values as contents; the same values as counted cells that copies share, with every operation that changes them | `library`, `wire` |
| `Json`, `TypeTags`, `Text` | the writer and the state machine of `value.rl`; `Value(TypeTag)`; `split` and characters | `library` |
| `MapTables`, `Mapper` | the tables of a `Mapper` and their scales (`mapper.cpp`, `scale_real.h`); `mapper.rl`, which fills them | `library` |
| `Url`, `MidiMessage` | `url.rl`, `url.h`, `location.*`; `midi_message.*` | `library` |
| `OscStream`, `OscPacket`, `OscMessage` | the outgoing stream on bytes; the reader of bundles and messages; values in messages and back (`osc_command.cpp`) | `wire` |

`TimingProofs` (timer and proxy), `CommandLifeProofs`, `SignalObserverProofs`,
`DispatchProofs`, `DiscoveryProofs`, `ObjectTreeProofs`, `DataProofs` (packets,
hash tables, midi messages, mappings) and `DevicesProofs` (what touches the
operating system) hold the theorems (section 5); `MC...` are the instances for TLC.

A method that holds a lock over its whole body, or a body nothing else can
observe, is one action; where the code gives up a lock, waits, or reads and
writes without a lock, the step is cut there. Data is abstract where no property
looks into it: in the state machines values are numbered by who set them and
when, names are a letter and a number (what `find_next_name` does to them is kept
exactly), a location is its address. Where a property is about a text or a
packet, what the code does to each character or byte is kept: texts are
sequences of characters, packets of bytes. Numbers are whole, or in tenths where
JSON writes them. The Ragel machines are translated from their `.rl` files.

**Environment.** Some constants say what the program around the library does.
`Programs` in `Discovery` is the order in which the user sets up and deletes
browser, factory and command (`Orderly` names the orders that are safe),
`LockedDelete` that the user's `delete_proxy` takes the command's lock. `Alone` in `SignalObserver` names the methods that are
called only while no other call runs, `Patient` in `CommandLife` says that
`clear` waits until the threads have reached their loops. `Serialised` in
`ObjectProxy` says that the user holds the command's lock (`ScopedLock
lock(command)`) in its calls. `Builds` in `Dispatch` says that the factory
builds every proxy below the first level (its `DispatchAssumption`): a factory
that answers NULL there ends the program; `Server` are the nodes whose users
edit objects and that are called. `Reassign` in `THash` lets tables be
assigned that hold something. The passing runs state them; section 4 says what
happens without.

## 3. Runs

Each run asks a component, or a family of components, all of its questions.

| Run | Bounds | Shows |
|---|---|---|
| `timer` | 2 clients, 3 loops, symmetric | one loop at a time (`OneLoop`), silence after `stop` (`QuietAfterStop`), `running()` accurate whenever no method is under way (`RunningIsAccurate`) |
| `proxy` | 3 sets, 1 foreign change, 1 datagram lost or late, 1 reset, time to 4 | the inductive `ProxyInv`, throttling (`Throttled`); when the network has not failed and nobody reset the connection the pending value is flushed (`PendingIsFlushed`) and the cached value ends equal to the remote one (`MirrorConverges`) |
| `tree` | 3 objects, 1 letter, 1 handle at a time, 1 clear, symmetric | the views of the tree agree after any edits, brothers have different names, after a clear lookups are still sound (`TreeIsSound`); the object to be kept last is (`KeptLast`) |
| `signal` | 2 threads, 2 signals, 2 observers, 5 calls | both ends of a connection agree, nothing is left of one that has ended, no list changes under a thread in it (`ConnectionsAreSound`); every call returns |
| `command_life` | 2 users, 3 commands of 2 protocols, 4 calls, 2 messages | no use after delete, threads end before their command, one command per protocol, a kill is heard (`CommandsAreSound`); every call returns but for the deadlock of section 4 |
| `discovery` | 2 services, one with 2 addresses, 1 interface, 3 announcements, 4 proxies | hash, vector and links of the proxies agree and none is left behind (`ProxiesAreListed`), no proxy, command or browser used after its end (`NothingUsedIsGone`), a service that stays is found (`AnnouncedIsFound`) |
| `receive` | a server with up to 3 objects, a watcher with a proxy, a client without; 3 events | whatever is lost, doubled or overtaken, a mirror has no object, type or value that its remote never had (`MirrorIsSound`); when nothing is lost and all is received it has what is there and what it was told of (`MirrorIsComplete`); who calls is answered (`CallersAreAnswered`); the network falls silent (`MessagesEnd`) |
| `mirror_synced` | the same, 2 events | violated: `ConnectedIsSynced` |
| `wire` | packets of 44 bytes, 6 accepted operations of every kind, refused ones in between; 442 values sent | the halves of the buffer do not meet (`NeverOverlaps`), everything is aligned (`Aligned`), a finished packet reads back as it was written (`ReadsBack`), the size of an open message is final (`SizeIsFinal`), values arrive as they were (`ValueArrives`) |
| `library` | tables of 2 buckets with 3 keys in one; 2 variables and 2 operations on values of three levels; 1946 values as JSON, among them every text of up to 5 letters, quotes and backslashes; strings of up to 5 characters to split; scripts of up to 4 lines; 12 texts of urls and paths of up to 6 characters; midi messages after any calls | `THash` implements `Dictionary`; no value refers to a deleted cell, a write to a hash is not seen through a copy; JSON, tags, separators and scripts lose nothing (of what section 4 does not list); what is mapped there and back returns; a url written is that url; a midi message is of the type it says |
| `heap_merge` | the part of `library` for values | violated: `MergedAsTold` |
| `devices` | 2 sockets, 2 timers, 2 datagrams or breaks, time to 1; a socket with 2 peers; 3 starts of a thread; 3 callers on 3 resources; a script in a file, which may or may not be opened, for 2 seconds; a hash of 2 keys; 2 messages and 2 threads on an OscMapCommand; 4 names taken and 2 changes of the daemon | a break is heard after one more listener of each kind at the most, the loop sleeps until its first timer is due and loses none, a socket keeps its peer (`SocketsKeepTheirWord`), the loop ends and receives (`LoopServes`); one body per thread, ready when its start returns, and one caller at a time that gathers resources (`ThreadsAreSound`), who gets them (`AcquireReturns`); script, hash and their files agree (`FilesAreKept`); the tables of mappings change alone (`MapperIsHeldAlone`), `port` returns (`PortReturns`); the name reported is the one published and nobody else's (`NameIsOurs`), some name is published (`RegisteredAtLast`); `DevicesServe` puts the four that must happen at last together |

Why the bounds are enough: three loops let a stop overlap the end of one loop
and the start of the next; three sets are one in flight, one pending and one
that overtakes; three objects are a parent, a child and either a grandchild, a
brother of the same name or another parent, and with equal names the third
meets the broken `find_next_name`; five calls connect both observers, send and
delete either; three commands are two that compete for a protocol and one more
in the list; three announcements let a service go and come back while another
stays. Three events of `receive` are an object adopted, changed and deleted, or
put in its place again, with the answers to each in any order. A packet of 44
bytes takes a bundle with two messages, or one message with every argument, and
refuses the next; three keys in a bucket are head, middle and end of a chain;
two operations on values are one that shares a part and one that changes it,
and the values have a hash in a hash and a list in a list from the start; two
lines of a script are a good one and one after it, four let a bad one stand
between. Two datagrams are the one that breaks the loop and the one behind it;
three starts are one that ends by itself, one killed and the next.

**Fairness.** Weak fairness of a thread's own steps: the operating system runs
every thread that can run (`Timer` needs none, its runs check safety).
`ObjectProxy` and `Dispatch` are fair to the delivery of datagrams under way,
and their promises are made for behaviours in which the network has not failed
(`Calm`; `"lost" \notin broken`), or, for `MessagesEnd`, whether it has or not. Calls by users,
changes by other clients, messages from outside and the faults are never fair.
In `Discovery` the callback that waits for the command's lock to delete a proxy
is strongly fair: replies come in bursts, not without a pause. `MCDevices` is
fair, in the steps of each part, to the loop, to the second half of a break, to the
clock, to bodies and callers of `Threads`, to the threads of `OscMapCommand` and to the
answers of the daemon in `Registration`. Deadlock is not checked where calls are
bounded or where the code can stop (section 4).

## 4. What does not hold

Two runs are counterexamples, and findings in `PROJECT.json`:

- `heap_merge`: `Hash::detach` copies the reference count with the hash
  (`hash.h:57`), so that the copy of a shared hash counts as shared for ever.
  Each write in the loop of `s_deep_merge` (`value.cpp:213`) then copies it
  again, and what is merged into an inner hash afterwards is lost.
- `mirror_synced`: an object adopted while a proxy watches is announced with its
  bare type in the place of its attributes (`root.cpp:115`); its proxy never
  asks for the value, and `is_connected` says it is synced (`object_proxy.cpp:107`).
  A proxy whose object is put in its place again loses its type and receives no
  more values.

The modules state more that the code does not keep. Each is refuted by TLC in
seconds when the cfg named is changed as said and checks it alone:

| Property | Change | Why (code) |
|---|---|---|
| `JoinedLoopCanFinish` (`Timer`) | `MCTimer.cfg` | `stop` joins the loop under `mutex_`; a loop that passed `while (should_run_)` waits for that mutex (`timer.h:81`, `:106`) |
| `SignalHasTarget` (`Timer`) | `MCTimer.cfg` | `stop` signals `thread_id_` after the loop has set it to NULL (`timer.h:80`) |
| `NewerIsNotUndone` | `Proxy.cfg`, `MaxFaults = 0` | a value stored in `to_send_` survives a later direct send and then undoes it (`object_proxy.cpp:70`) |
| `LastSetArrives` | `Proxy.cfg`, `MaxForeign`, `MaxFaults`, `MaxResets = 0` | a set during the first round trip is dropped (`object_proxy.cpp:57`) |
| `MeasuredFromAnswer` | `Proxy.cfg` | after a reset any notification sets the latency (`object_proxy.cpp:88`) |
| `PendingIsAwaited` | `Proxy.cfg`, `Serialised = FALSE` | a set that races an answer stores a value nobody will flush (`object_proxy.cpp:65`) |
| `ClearedIsNotFound` | `Tree.cfg` | after `Object::clear` of a parent whose child is held by a handle, what lies below the child is still found (`object.cpp:190`) |
| `CountIsChildren` | `Tree.cfg` | `clear` keeps `children_vector_` (`object.cpp:195`) |
| `NameKeepsBase` | `Tree.cfg` | `substr(0, pos - 1)` eats a letter (`object.h:416`) |
| `NamingEnds` | `Tree.cfg`, `Obj <- MCObj5` | the names come round and the loop never ends (`object.cpp:139`) |
| `NoDeadlyEmbrace` | `Signal.cfg`, see below | `send_once` and `~Signal` lock in the opposite order of `~Observer` |
| `ReceiverIsWhole` | the same | a send reaches an observer whose destructor has begun (`observer.h:44`) |
| `NothingLeftBehind` | the same | `connect` crosses `disconnect` (`signal.h:64`) |
| `ListsIntact` | the same | `send_once` erases under the lock for readers (`signal.h:88`) |
| `JoinedIsFree` | `CommandLife.cfg`, see below | `Root::clear` joins, under the lock of `commands_`, a thread that waits for it (`root.cpp:64`) |
| `BufferIsExclusive` | the same | two threads build packets in one `osc_buffer_` (`osc_command.cpp:209`) |
| `UsedIsAlive` | the same, `Ops <- MCOwnerAndSender` | a command found by `send` is deleted by `clear` (`root.h:268`) |
| `SendHasSocket` | the same, `Ops <- MCOwnerAndSender` | a command is visible before its socket exists (`root.h:158`) |
| `OnePerProtocol` | the same, `Ops <- MCTwoOwners` | test and push under two locks (`root.h:150`) |
| `KillIsHeard` | the same, `Patient = FALSE` | `Run()` clears a break that came before it (`osc_command.cpp:429`) |
| `HandledIsAlive` | `Discovery.cfg`, `LockedDelete = FALSE` | by default `delete_proxy` deletes a proxy whose reply the command's thread is handling (`zeroconf_browser_common.cpp:77`) |
| `HandledIsAlive` | `Discovery.cfg`, `Programs <- FactoryPrograms` | a factory is deleted by the browser or by another factory while its proxies keep its address (`proxy_factory.h:54`) |
| `CallbackIsSafe` | `Discovery.cfg`, `Programs <- UnstoppedPrograms` | a callback uses a command that was deleted, or a browser whose derived part was |
| `AnnouncedIsFound` | `Discovery.cfg`, `Interfaces = {i1, i2}` | a removal on one interface forgets a device that is still there on the other (`zeroconf_browser_common.cpp:101`) |
| `AnnouncedIsFound` | `Discovery.cfg`, `MaxFailures = 1` | a lookup that fails is not made again (`linux/zeroconf_browser.cpp:198`) |
| `FoundHasProxy` | `Discovery.cfg`, `b1 = a1` | two names of one address share the proxy of the first, and lose it with the first (`zeroconf_browser_common.cpp:63`) |
| `FoundIsAnnounced` | `Discovery.cfg` | a lookup answered after the removal adds the device for good (`linux/zeroconf_browser.cpp:206`) |
| `RunningIsTrue` | `Discovery.cfg` | Avahi's thread quits by itself and `running_` stays, so that `start` refuses (`linux/zeroconf_browser.cpp:222`) |
| `IsDictionary` | `Library.cfg`, `Part = {"table"}`, `Reassign = TRUE` | `operator=` keeps the old keys (`thash.h:90`) |
| `JsonSurvives` | `Library.cfg`, `Part = {"json"}` | what JSON writes is not always read (below) |
| `QuotesAreEscaped` | the same | `escape` moves `last_append` behind a quote only when it has just copied something (`value.cpp:68`): after a quote that begins the text, or follows another, the next run is copied from the wrong place, and `"a` is written as `\""`, without the `a` and with a bare quote |
| `NothingLeaks` (`ValueHeap`) | `Library.cfg`, `Part = {"heap"}` | the count that `Hash::detach` copies is never given back (`hash.h:57`) |
| `TagsAgree` (`ValueHeap`) | `Library.cfg`, `Part = {"heap"}` | `List::set_value_at` replaces one character of the type tag at a place that counts elements (`list.cpp:58`) |
| `NotifiesWholeRules` | `Devices.cfg`, `Part = {"map"}` | "Executed within mutex lock from root" (`osc_map_command.h:77`): the root holds the lock of its commands (`root.h:402`), not the mutex under which the rules are replaced |

The rows of `Signal.cfg` take `SPECIFICATION Spec`, `Sig = {s1}`, `Obs = {p1}`,
`MaxCalls = 3`, `Alone = {}`; those of `CommandLife.cfg` take `SPECIFICATION Spec`,
`Kinds = {"call"}`, `MaxCalls = 3`, `MaxMessages = 1`.

Some properties hold only beside cases they name, and the translation met more
that the code does otherwise than its callers may think. They are kept as the
code has them, in the modules:

- *Messages* (`Dispatch`): two roots without meta methods would answer each
  other's errors for ever; an error inside the reply of a meta method arrives as
  its code; nobody is told that an object was deleted, so mirrors keep ghosts;
  a call on one's own root notifies nobody; `unregister_proxy` and
  `clear_on_register` erase from the list they walk over (`root.cpp:83`).
- *OscMapCommand*: `port` joins the own thread under the lock it needs; a break
  before `Run` is lost; a message mapped to the command's own `port`,
  `reply_port` or `script` locks itself out; a port that cannot be bound throws
  in the thread (`Embrace`, `terminated` in `PortReturns`).
- *Registration*: a collision before the group exists resets NULL; one that is
  answered after the group was filled again reports a name that is not the
  published one; a commit that fails is not tried again (`NameIsPublished`,
  `RegisteredAtLast`).
- *Sockets*: after a break from a listener one expired timer is still called
  (`UdpSocket.h:70`); a signal during `select` leaves its sets as they were
  given, so that the loop blocks on the pipe or a socket (`Hung`); a break
  before `Run` is lost; a failed `connect` leaves kernel and object disagreeing;
  datagrams are cut at 4098 bytes (the sender's buffer takes 20480).
- *Threads*: `kill` reads `thread_id_` three times, a body that ends in between
  is cancelled or joined as NULL (`crashed`); two semaphores constructed at once
  share a name (`sem_open`, then `sem_unlink`), which is not modelled.
- *Files*: a file that `stat` finds but that cannot be opened is read as an empty
  script, and approved when the empty script compiles (`TextRead`,
  `script.cpp:123`); a change in the second in which the script was loaded is
  never seen (`MissedInItsSecond`), nor a failed save; a text with errors set after
  `file()` is not loaded again; `update` on a file that holds no hash writes
  `null`; edits of the hash's file by others are overwritten.
- *JSON*: a list of one element is written as that list and read as empty,
  the empty list is read as null; `true`, `false` and `null` behind a space are
  not read, `[1, true]` never ends; `[1,[]]` overflows the stack; of the
  texts, those with a backslash do not come back (`escape` copies it with what
  follows), nor those where anything but quotes stands behind a quote that
  begins the text or follows another (`Escapable`; the run shows that no others
  are lost); keys are not escaped, and one that begins with `=` is not stored;
  numbers from a million up lose digits.
- *OSC values*: errors, matrices and empty values are sent as nothing, keys
  that begin with `=` vanish (`Carried`, `Plain`); a packet that is too long
  throws out of `send`. *Values*: `contains_error` misses a hash in a nested
  list (`value.h:649`); `set_value_at` takes a list in place of a value whose type
  tag it shares, so also a list of one element in place of an element of that type
  (`list.cpp:53`), and throws when a place has no type tag; `push_back` of a list on itself makes a cycle; the type
  tag `[]` builds an empty value and `E` none.
- *Text*: `split` by an empty separator does not end, `join` drops the
  separators of leading empty texts. *Url*: `letters:port/path` is read as a protocol, a host
  needs a port and a path, an address that is not found is not initialised, and
  equal locations hash differently. *Mapper*: a line with an error ends the
  script without a word (`mapper.rl:179`), inverted ranges clamp to one end,
  replaced mappings leave their reverse. *Midi*: a channel set on a system message, or a type set on a
  clock, changes another's byte.

## 5. Proofs

`TimingProofs` proves of the timer, for any sets of clients and loop threads, `TypeOK`,
`TimerInv` and from them each safety property of the run `timer`, and
`StartNeverRefused` and `ReadyIsOwed`. None of these properties is inductive:
that `stop` leaves no loop depends on what the client that holds `mutex_` may
assume at each of its steps. `TimerInv` says that: a client past the lock is
its only holder; a loop that is alive is the one `thread_id_` names, or one
that is about to clear it; between `join` and `create` no loop is alive; the
semaphore is up only for the client that waits. The proof has one step per
action. It assumes only that clients and loops are different threads
(`ThreadsAssumption`).

`TimingProofs` proves of the proxy, for any bounds, that

* in any interleaving of the two threads and on any network, a wait never ends
  more than one and a half latencies from now (`WaitBounded`) and a measured
  latency is never taken back to a negative one (`LatencyNeverLost`);
* when the user's thread holds the command's lock (`Serialised`), two messages
  on the value without an answer in between are one and a half latencies apart
  (`SendsAreThrottled`), and a value kept in `to_send_` waits for an answer
  until the connection is reset (`PendingHasWait`).

None of the four is inductive. The argument is `ProxyInv`, in three parts.
`LatencyInv` relates `wait_until_` to `now` and `latency_` between the steps
that set them: with `wait_until_ <= now + 1.5 latency_`, the quarter of
`now - wait_until_` that an answer adds cannot take away more than the latency.
It excepts the answer being handled (`hpc` past "query"), where a latency may
have been updated and the wait not yet. `ThrottleInv` says where the branch that
`set_value` has chosen is still justified when it is taken, which is what the
lock is for: without it an answer may change the wait in between. `PendingInv`
says that a wait is under way whenever a value is kept, and that nothing is kept
before the first latency. `DeadlineValue` and `UpdatedLatencyValue` are the
arithmetic of the two assignments, rounding towards zero included.

`CommandLifeProofs` proves, for any users, commands, protocols and bounds, and
as long as one user at the most adopts, clears and sends (`OneOwner`: with two,
rows `OnePerProtocol` and `UsedIsAlive` of the table above), that no command is
deleted while it is used (`CommandsOutliveTheirUse`) and, when `clear` waits
until the threads listen (`Patient`), that `commands_`, the commands and their
threads stay in step (`CommandsStaySound`). `UsedIsAlive` speaks of whoever
holds a command; what keeps it alive differs with the call, and `LifeInv` says
it for each: a notification is at a place of the list, under the lock that a
writer waits for (`Place`, `Locked`); what the owner found is on the list, which
only the owner shortens (`Found`); a command's thread, while it runs, is what
`clear` joins (`Answers`, `Fates`); a command being adopted is not listed yet,
or has no thread (`Adopting`). That a join is heard (`KillIsHeard`) needs a
second part, `HeardInv`: a running thread still has `running_` set, or its
`break_`, which holds only because `Run()` is past its `break_ = false` when
`clear` begins. A notification, an adoption's wait and the steps of `clear`
before the join change no command: `OnlyMoves` proves once what they keep.

`DataProofs` proves of `OscStream`, for a buffer of any size and any sequence of calls
with any texts, blobs and numbers, that the type tags and the arguments never
meet (`StreamNeverOverlaps`), that everything begins at a multiple of four
(`StreamCursorsAligned`), and that what `Size()` says of an open message is its
size when it is closed (`StreamSizeIsFinal`). The first is not inductive: that
*one more* argument fits says nothing of the tags collected so far. `Sound`
adds what `CheckForAvailableArgumentSpace` keeps: the room behind the arguments
is enough for all tags counted, with comma, end and padding, as if the message
were closed now (`StreamSize(s) <= Capacity`). The lemmas on lengths
(`PaddedLength`, `BlobLength`, `RoundUpFacts`...) say what each argument adds.
The proofs assume that callers write bytes (`StreamAssumption`).

That everything stays aligned (`StreamIsAligned`) needs to know what the four
bytes at the start of each bundle and message hold while it is open: the place
of the one it is in. `Chained` says that the places so linked lead from the open
element to the first, each before the next, and that nothing is written below
the message's cursor but by the end of the element whose place it is. It assumes
that the buffer is no longer than four bytes can count (`SlotsReach`).

`ObjectTreeProofs` proves, for any number of objects, any names and handles,
that the views of the tree agree and the children to be kept last are
(`TreeStaysSound`, `LastStaysLast`), after any order of adoptions, renamings,
releases and clears. The views are compared with what each object says of itself:
`Hashes`, `Vectors` and `Dictionary` say that the children's hash, the children's
vector and the Root's dictionary hold the objects whose `parent_`, `name_`,
`url_` and `root_` put them there. What that needs of the objects is `Shape`. Its
core is `Follows`: an object's url is its parent's with its own name appended. So
urls grow downwards, which is why the tree has no rings, why `moved()` ends and
computes what its recursion says (`UrlsBelowFits`), and why no two objects of the
Root have the same url (`RootedUrlsDiffer`), so that registering one does not push
another out of the dictionary. The lemmas on `RemoveFirst` and `InsertAt` say
that a row of children stays one (`InRow`), whatever `register_child` reads of
objects that are gone. Naming may not end (section 4): then the tree is left as
it was. What is below an object is the least set closed under children
(`Reached`), not a recursion, so that the proofs can use it.

`SignalObserverProofs` proves, for any threads, signals, observers and calls,
that connections are sound as long as `disconnect`, `send_once` and `~Signal`
are called while nothing else runs (`Lonely \subseteq Alone`; `send`, `connect`
and `~Observer` may overlap). `ConnectionsAreSound` is about calls that are not
under way; `LinkInv` says what holds in the middle of one. The two lists of a
connection are out of step only while the call that changes them is between its
two changes (`InStep`, `Linking`, `Unlinking`), the first of which is still
there when the second is made (`Halfway`, `Triggering`), and what a destructor
is through with names the dying object no longer (`Forgotten`). What `erase` of
the first occurrence leaves (`WithoutKeeps`) is a fact on a recursive function;
it is proved by its least counterexample.

`DispatchProofs` is about any nodes, trees and calls, on a network that loses,
doubles and reorders what it likes.

* `MirrorsAreGhosts` (`MirrorIsSound`): a mirror shows nothing its remote never
  had. The property does not mention messages, and is not inductive without
  them: `GhostInv` demands of every message under way what its receiver will
  make of it (`Truthful`), of what a node has that it has had it (`Kept`), and
  of each proxy the property itself with the type it must have to be asked
  (`Ghost`).
* `CallersGetAnswers` (`CallersAreAnswered`): when nothing was lost, a call that
  is not answered is under way, or its answer is (`Coming`).
* `MirrorsAreWhole` (`MirrorIsComplete`): what a complete mirror lacks before
  the network is silent is on its way. `Complete` says what a watcher
  that is attached still has to get: its call for the listing is under way or it
  is an observer already (`Observes`: any call makes its sender one); each object
  of the first level is in the mirror, in a listing or a notification under way,
  or the listing is still to be made (`HasListed`); a path it was told of is in
  the mirror or in a notification under way (`HasBeenTold`).

They assume of the environment what `DispatchAssumption` says.

`DiscoveryProofs` proves, for any names, addresses, interfaces and
announcements, that the registry of proxies agrees with itself and that nothing
is used after its end (`ProxiesStayListed`, `UsedIsThere`), when the user's
programs are `Orderly` (the factory and the user's own proxy made before
`start`, `stop` before anything is deleted and nothing started after, the
command deleted before the base of the browser), when the user's `delete_proxy`
takes the lock (`LockedDelete`), and when no two names have an address in common
(`AddressesAreOwn`). Section 4 shows what happens without the lock, with an
address in common, and under programs that stop nothing or replace a factory;
`MCDiscovery` checks which of its programs are orderly. The properties compare what
is there between callbacks. `DiscInv` also says whose hands a proxy is in while
it is on no list, between its birth and its adoption, and between `detach` and
`delete` (`Callback`); that what is left of the program fits what is there, so
that a browser that runs has its `stop` still to come (`Script`, `Session`);
and that an address kept for a name is one of its own (`Places`).

`DataProofs` proves of `THash`, for any keys, values and hashes of them, however
they collide, that every operation keeps the table one (`TablesStaySound`) and
does what it does to the abstract `Dictionary` (`TablesAreDictionaries`: the
initial states map to initial states, each step to a step or a stutter). The
invariant `TableInv` says that a key is in the chain of its bucket once, and in
the list of keys, once too, exactly when it is in a chain. Both theorems assume
that no table is assigned to that holds something (`~Reassign`; section 4). The loops
of the code are recursive functions of the turn: `TurnsExist` says that such a
function exists, `UpTo` that what holds before the first turn and is kept by each
holds at the end, both by the least number for which they fail. So each loop
has its invariant (most of them `Minus`: the table is the one the loop began with,
without the keys removed so far), and the operations are put together from what
their loops leave.

It proves of `MidiMessage`, for any bytes handed to the setters, that the status
byte tells the type (`TypeKeepsItsByte`), as long as no call of section 4 has
misled the message (`MidiInv`). The setters change byte and type by arithmetic
modulo 256 (`TypeBounds`, `StatusByte`), for messages of the system, which have
no channel, too.

And of `MapTables`, for any urls, ranges and scripts, that what is mapped there
and back returns (`MappingsReturn`). `Paired` is the invariant of the loop over
the entries of a script: an element that leads to a control which is mapped back
to where it came from was set together with its reverse, so their ranges agree,
although either may have been replaced by others. The rest is arithmetic
(`Proportion`: a value that divides evenly is not rounded on either way, and
`NotClamped`). That `Mapper` hands `set_map` what the theorem quantifies over is
its assumption `ScriptsTellEntries`, which TLC evaluates for the scripts of the run.

`DevicesProofs` proves each machine of `MCDevices` on its own, for any values of
its constants: their specifications (`SocketsSpec`, `ThreadsSpec`, `FilesSpec`,
`OscMapSpec`, `RegistrationSpec`) are the parts of `DevicesSpec`, without its
fairness.

* `LoopKeepsItsWord`: `LateInv` counts the listeners called since the break by
  where the loop is (none while it waits or reads the pipe, one of a socket when
  it turns to the timers); `QueueInv` says when the queue is in order: not while
  timers expire, nor once one of them has ended the loop, which is why the
  sleep can be computed from its head. `std::sort` may leave timers due together
  in any order: `InOrder` is the set of the sorted permutations, and what they
  keep is proved for each.
* `ThreadsStaySound`: by `BodyInv` a body that is alive is the one `thread_id_`
  tells of, and whoever waits for a body waits for that one; by `ReadyInv` the
  semaphore is raised once in each start, by a body past its beginning. `GatherInv` says that who takes several resources holds
  `acquire_mutex_`.
* `MapperStaysAlone`: who is in the rules holds the mutex (`HeldInv`), also after
  `receive` has given it up and taken it again.
* `NameStaysOurs`: by `ReportInv` the entry of a committed group is `name_`, and
  when the group is established that was reported or its event is still to come;
  by `UniqueInv` nobody else on the host has the entry of a committed group, and
  nobody else on the network that of an established one. That `next_name` finds a name (`FreshIsThere`) is the
  pigeonhole principle: finitely many are taken on the host, so one of the first
  n + 1 is free. `RegistrationAssumption` says that they are finite.
* `FilesStayKept` proves the three invariants and the action property of
  `FilesAreKept`. `MissedInItsSecond` needs `TimesInv`: no file is from the
  future, and the script's `mod_time` is not later than when it was synced; so
  an edit with the time the script knows was made in that second. The hash's
  `AnswerIsWritten` is inductive; with it an update merges into what is in the
  file, whether it was read before or not (`ReadIsFile`).

Only model-checked:

* liveness under fairness (`CallsReturn`, `PendingIsFlushed`, `MirrorConverges`,
  `AnnouncedIsFound`, `MessagesEnd`, and `DevicesServe`, which puts `LoopServes`,
  `AcquireReturns`, `PortReturns` and `RegisteredAtLast` together), which TLAPS does
  not reach;
* what RECURSIVE operators compute (`Json`, `TypeTags`, `OscMessage`, `OscPacket`,
  `ValueHeap`, `Values`, the machine of `Mapper`): the prover loses its arithmetic
  in a module that has one, and what they say of every value, text or packet is an
  induction over data. So `ValuesKept`, `TextsAreRead`, `ReadsBack`, `ValueArrives`,
  `NothingDangles` and `HashIsPrivate` are properties of the runs alone. A loop
  that is a recursive *function* of its turns can be reasoned about, as above;
* `UrlKept`, whose machine folds over the characters of a text;
* that the machines of `MCDevices` do not disturb each other: they share no
  variable.

## 6. Not modelled

- `Root`'s `on_register_` callbacks and the views (`expose_views`,
  `get_views_path`), `Object::set` with a hash and `to_hash`, `FileMethod` and
  `File::list`: conversions and callbacks whose state is elsewhere.
- The last `release` of a handle against a lookup in another thread
  (`root.h:352`): `ObjectTree` is edited by one thread.
- `Alias`: an observer that deletes itself; what can go wrong is in
  `SignalObserver`. `TimeRef`, logging.
- The elements of a `Matrix` and its operations, which are OpenCV's.
- macOS, iPhone and Windows ports but for the win32 sockets; Bonjour.
- Lua bindings (generated), examples, `off/` (retired code), tests (read as
  documentation).
