# A TLA+ verification of smartDNS

smartDNS is a small authoritative DNS server. A *master* process reads a
configuration and zone files, a *monitor* process (a `redis-server` it execs)
keeps the resource records, and a *worker* process answers queries from what
redis holds. This directory models the parts of it whose correctness depends on
the order of steps of several actors, on failures, or on limits; TLC checks the
models on small instances and TLAPS proves the main invariants for all values
of the constants.

Paths below are relative to the repository's source tree, `src/` in front of
them (`src/src/main.c` is written `main.c` when it is clear).

## 1. Inventory

### The parts, their state and operations

| Part | Code | State | Operations |
|---|---|---|---|
| Master and supervision | `main.c`, `master/signal_my.c`, `include/signal_glb.h`; `start_monitor()` in `monitor/monitor.c`, the fork half of `start_worker()` in `worker/worker.c` | `glb_vars.child_process[]`, the signal mask and handler, `s_received_signal` | `get_options`, `start_monitor`, `parse_conf`, `pkt_engine_init`, `set_/block_required_signal`, `sort_init`, `start_worker`, `start_pkt_engine`, then `wait_required_signal` / `process_signals` / `process_SIGCHLD` for ever; `kill_child_all` at `exit()` |
| Store client ("monitor" interface) | `monitor/monitor.c`, `include/monitor_glb.h` | nothing between calls; the data are in redis | `save_binary_in_str`, `append_binary_to_str`, `append_binary_in_hash`, `traverse_binary_str`, `traverse_hash_binary_str`, `dispose_binary_in_str` |
| Worker loop | `worker/worker.c` | the current `PKT` | `receive_pkt`, `process_mesg`, `send_pkt`, for ever |
| Socket engine | `engine/engine.c` | one socket, one static `s_pkt_buf` | `pkt_engine_init`, `receive_pkt`, `send_pkt` |
| DNS codec | `dns/dns.c` | works in the packet buffer, `PKT_INFO.domain` and `cur_pos` | `parse_dns` with `get_query_domain`; `cons_dns` with `add_dns_answer` |
| Zone query | `zone/zone_query.c`, `get_rr_info` in `zone/zone.c` | `rr_info[]` on the stack | `query_zone` |
| Zone configuration parser | `zone/zone_cfg.c`, the `zone_info` helpers of `zone/zone.c` | the `ZONE_INFO` being read | `parse_conf`, `zone_cfg_parse`, `save_zone_info` |
| Zone file parser | `zone/zone_parse.c` | `RR_INFO` of the last line, `default_ttl`, a state machine over lines | `parse_zone_file`, `parse_rr`, `parse_soa_rr`, `save_rr_info`, `translate_to_int` |
| Tokenizer | `get_a_token`, `get_a_token_str` in `zone/zone.c` | within a call a state machine over characters, none between calls | functions over a line |
| Options and roles | `master/option.c`, `include/util_glb.h` | `process_role` bits, `conf_file` | `get_options` |
| Sorting by GeoIP | `sort/sort.c` | the GeoIP handle | `sort_init`, `sort_answer` (looks the client up, changes no answer) |
| DPDK engine | `engine/engine_dpdk.c` | a frame and the pointers into it (`PKT_INFO`) | `parse_pkt`, `cons_pkt` with the checksums; not built by default, and receive and send are stubs |
| Log and statistics | `log/*.c` | write-only counters | |
| Pcap reader, tests, build, generator | `pcap/`, `check/`, `create_statistics_mod.py` | | |

### How they interact

* The master forks the monitor child (which becomes redis) and, `sleep(5)` and
  the loading of the zones later, the worker. Every process inherits a copy of
  the master's memory and its `atexit()` function.
* The kernel tells the master of a child's end by SIGCHLD; the master does
  nothing about it but reap the zombie. Nobody restarts anything.
* Master (loading) and worker (reading) meet only in redis, through the store
  client. Each call opens a connection of its own and sends one or two commands;
  a second smartDNS on the host (`smartDNS -t`, or a restart while an orphaned
  redis lives on) uses the same redis.
* Loading sets the key of a zone's name to a `ZONE_INFO`, appends an `RR_INFO`
  per record to the key of the record's name, and appends that name to the list
  of names of the zone.
* The worker uses one packet buffer for request and reply, without clearing it.

### What is hard, and what correctness means

| Part | Hard behaviour | Correctness |
|---|---|---|
| Supervision | SIGCHLD at any point of the wait loop, merged signals; deaths before the handler; exits at any stage; stale pids; failed `fork`/`exec`; `atexit()` run by a child | no child outlives an `exit()`; nobody else is killed; no death of a worker is slept over |
| Store client | GET and dependent SET are two commands; redis dies between them; two writers | a call is atomic or fails without effect; lists only grow at their end; no duplicates; calls return |
| Worker, engine, codec, query | what earlier datagrams leave in the buffer; rejected and cut datagrams; the store changing or dying between question and GET | the right record for the question; a name that ends in its array; the loop goes on whatever is sent; an answer for every whole question |
| Command line, `master.conf` | options in any order and number; tokens that touch quotes, comments, braces; a zone is saved when the next one begins; buffers of fixed length | the roles that were asked for; the zones that are written, each with its own type and file; zone files beside `master.conf` |
| Packet path | question, answer and headers share one buffer; frames cut anywhere; lengths and carries of the checksums | the name is looked up as it is written; the reply answers the question, verifies, and goes back the way it came |
| Zone files | fields inherited from the line before; state by lines; a record is saved in two calls | a record gets the TTL, class and name the file gives it; an accepted file is loaded; what is listed is served |
| Composition | order of loading and serving; old records in a redis that survived | after loading, a lookup finds what the zone file says |

`PROJECT.json` lists the single hazards with their lines.

## 2. Modules

| Module | Models | Uses |
|---|---|---|
| `Supervisor` | master, its children as processes of a host, signals | |
| `SupervisorProofs` | theorems | `Supervisor` |
| `MCSupervisor` | TLC instance: three pids besides the master's | `Supervisor` |
| `AtomicStore` | what `monitor_glb.h` promises, abstractly | |
| `StoreClient` | the calls of `monitor.c` as redis commands | instance of `AtomicStore` (`Abstract`) |
| `StoreProofs` | theorems, the refinement among them | `StoreClient` |
| `MCStoreClient` | TLC instances: a loader and a reader, two loaders | `StoreClient` |
| `Worker` | worker loop, socket engine, zone query, and the DNS codec label by label, over a sequence of datagrams | |
| `WorkerProofs` | theorems | `Worker` |
| `MCWorker` | TLC instance: names of up to two labels | `Worker` |
| `ZoneFile` | `parse_zone_file()`: one zone file into redis | `Durations` |
| `ZoneFileProofs` | theorems | `ZoneFile`, `Inductions` |
| `Durations` | `translate_to_int()`, `is_digit()`: times with units | |
| `MCZoneFile` | TLC instance: lines of `conf/example.zone` cut down, and faulty ones; all short strings as times | `ZoneFile` |
| `Loading` | composition: `parse_conf()` over a redis with a history, starts, crashes, `smartDNS -t` | |
| `LoadingProofs` | theorems | `Loading`, `Inductions` |
| `MCLoading` | TLC instance: two zones with a common host name, two configurations | `Loading` |
| `Tokenizer` | `get_a_token()`, character by character | |
| `Startup` | `get_options()`, the roles, `zone_cfg_parse()` over the characters of `master.conf`, the paths of zone files | `Tokenizer` |
| `StartupProofs` | theorems | `Startup`, `Inductions` |
| `MCStartup` | TLC instance: short lines, files and command lines | `Startup` |
| `Packet` | the packet path byte by byte: `parse_pkt`, `parse_dns`, `cons_dns`, `cons_pkt` | |
| `PacketProofs` | theorems | `Packet`, `Inductions` |
| `MCPacket` | TLC instance: frames and names around every limit | `Packet` |
| `Inductions` | lemmas: induction over sets of numbers, functions defined by recursion, sums | |

### Supervisor

`mpc` is the place of the master in `main()`; an action is one call of `main()`,
with its error exit. Where a step has effects that other processes can come in
between, it is split: `start_monitor()` into `ForkMonitor` (the `fork`) and
`SetMonitor` (the end of `sleep(5)` and `SET_CHILD_PROCESS`), `start_worker()`
likewise, `process_SIGCHLD()` into one action step per `waitpid()`.
`wait_required_signal` is `sigsuspend()`: it takes a pending SIGCHLD or moves to
`"suspended"`, from which only the delivery of a signal leads on.

`proc` is the kernel's table of processes: a pid is free, foreign
(`"stranger"`), one of the children at some stage, or a zombie. `NotifyMaster`
is what the kernel does with a SIGCHLD - discarded when there is no handler,
pending when blocked, handled otherwise - and is part of every action that makes
one. `copy` is the `child_process[]` each child has inherited; it matters when a
child runs `kill_child_all()` itself: the monitor child whose exec fails
(`ExecFails`), and the worker child whose set-up fails. The latter returns into
`main()` (`WorkerStarts`), where it waits for signals like a second master
(`WorkerStrays`) or exits because the engine does not start (`WorkerExits`).
`Faults` says which rare events an instance considers. The errors of `parse_conf`,
`sigaction()`, `sigprocmask()` and the like are among the results of their
actions in every instance.

Not in the model: `log_init()` and `zone_init()`, whose errors exit before there is
a child; what the steps of `main()` compute (their result is a choice
between success and failure), the log, `process_option_signal()` (it only logs),
`getppid`-style details nobody uses.

### AtomicStore and StoreClient

In `AtomicStore` a call takes effect at one point between its start and its
return, or has none. A call that returns RET_OK has had its effect; of one that
returns RET_ERR nothing is said, since the reply to its SET may be what was lost;
one whose process crashes never returns. In `StoreClient` a call is `Invoke`,
`Connect`, then its GET and/or SET commands, each of which may instead fail
(`CommandFails`: the connection broke or redis answered an error; a SET may also
have been carried out when its reply is lost) and ends with `Return`. `orig` is
`orig_data_reply`, the list that an append has read and will write back,
extended. `traverse_*()` takes a missing reply for "no data" and returns RET_OK;
`dispose_*()` returns RET_ERR. A hash is modelled by its fields
(`HashKey`), since no call touches two of them.

`append_binary_in_hash()` frees a variable it has not set when it leaves without
its HSET. `Garbage` is what that variable may hold: with `"wild"` the process may
crash, and its client stays in the call for ever. Every instance has both values.

### Worker

One action per function of the loop, with all of its error exits. Names are
sequences of labels. `domain` is the array the name is copied to, a cell per
label and one for the terminating 0; it keeps what earlier datagrams have left,
and a name that is cut or too long leaves its first labels there without an end.
`query_zone` reads `store` at the time of the GET, `before` is a history
variable with the store as it was when the question arrived. Whenever
`get_rr_info()` finds nothing, `rr_info[0]` is what the stack holds: any value.

`SaveRR` and `SaveZone` are another smartDNS loading its configuration into the
same redis while the worker serves, each one a single step: it is `StoreProofs`'
`OneWriterIsAtomic` that allows this for one loader.

Abstractions (`Packet` has the bytes): a `<type, class>` pair is one `Type`, a
`<ttl, address>` pair one `Data`. All labels are of equal length, so the byte
limits of `get_query_domain()` (63 per label, 255 per name) become `MaxLabels`.
A datagram of the form `"overlong"` has a length byte of 128 or more behind its
labels: refused where `char` is unsigned, and where it is signed a negative size
that ends the worker in `memcpy()`: `AfterOverlong` has both, `"dead"` being a
worker that nobody starts again. What lies in the buffer after a name that is cut
is any type, or the name is refused. Of `ZONE_INFO` only its length matters here:
1060 bytes, no multiple of the 272 of an `RR_INFO`, so that nothing behind it is
read as a record.

### ZoneFile

The program reads a zone file line by line and a record line token by token, and
so does the model. `pc` is the place in `parse_zone_file()`: about to read a
line (`"fgets"`), in the loop of `parse_rr()` (`"token"`), before the first and
the second store call of `save_rr_info()` (`"append"`, `"list"`). `state` is
`parse_machine_state`. One action reads a line of the header (`ReadHeader`, which
tries an unknown keyword as the first line of the SOA record at once, as the code
does), a number of the SOA record (`ReadSoa`), or begins a record line
(`ReadRR`); then `ReadToken` for each token, `EndOfLine` for the default TTL and
the expansion of the name, `AppendRR` and `ListName`. The two store calls return
RET_OK with effect, or RET_ERR with or without, as `AtomicStore` allows. `rr` is
the one `RR_INFO` of the whole file; `Cleared` is what each line starts from.
Two history variables let the properties say, without the loop, what the file means
(`IsRecordOf`, `AsWritten`): `lines`, the lines `parse_rr()` has been given, and
`read`, all that `fgets()` has returned.

A line is the sequence of its tokens up to a comment, a bracket or its end
(`Tokenizer` says which those are); `Invalid` stands for a place where
`get_a_token()` fails. What a token means is given by the constants `Address`
(`inet_pton`) and `Full` (a relative name made absolute); the module assumes that
a key is no number and no address, and a number no address. `Spelling` has the
characters of all tokens made of digits and units only, names such as `www`
among them: to `translate_to_int()` that is a number (0), and where a number of the
SOA record is expected `ReadSoa` takes a record's line for it. `Durations` computes from
them what `translate_to_int()` makes of one, in one `Turn` per character, as the
code does: `Duration`, and `Number` where `is_digit()` holds. It stays below 2^31.
`TimesAsDocumented` speaks of all strings of `Texts`, whether a file has them or
not: `Worth` says what a digit counts for where it stands, from the end of the
string, where the code goes from its beginning. Files have no quoted strings
(`example.zone` says so), so no token is empty. For a record without any name before it, the code looks at `name[-1]`;
whether a dot is found there is a choice (`Expanded`). Fields of `ZONE_INFO`
that are only printed are left out, `saved` is its value in redis. Widths are
left out: a TTL is a natural number, and names fit their arrays.

### Loading

The system seen from the administrator: files, masters that load them one after
the other, and the redis they load into. It puts together what the other modules
have in detail: a call of the store is one step that may fail with or without its
effect (`AtomicStore`, which one writing process implements by
`OneWriterIsAtomic`), a zone file is the sequence of its records (`ZoneFile`), a
master ends by `exit()` or is killed, and leaves redis behind (`Supervisor`).

`pc` is the place of the master in `parse_conf()`: `SaveInfo` and `AppendZone`
are the two calls of `save_zone_info()` for each zone of `master.conf`;
`ReadList` is the GET of `zone_parse()`, whose result `todo` is not read again;
`OpenZone`, `ResaveInfo`, `AppendRR`, `ListName`, `FileEnds` are
`parse_zone_file()` for one zone. `Call` is a call of the store with its ways to
fail. `store` is redis, with the four kinds of keys smartDNS uses. `Start` finds a
redis that has the port already (`own` is false then: the master's child has
ended), or starts one over the dump, or over nothing. After `Serve` a further
master may start beside the one that serves. `skipped`, `stale` and `full` are
history variables for the properties.

`ServesTheFiles` says where each line of the files has its place (`Place`: the
zone's in `master.conf`, and the line's in its file) and what comes before it
(`Before`); a record stands in redis where its first line does.

Assumptions: one master loads at a time; the files do not change while they are
read; the five seconds of `sleep(5)` are enough for redis to start. The names of
zones are left out of the promises: what is stored there is out of reach
(`worker_zone`).

### Tokenizer and Startup

`Tokenizer` is the machine of `get_a_token()`: `Kind` raises the flag of a
character, `Jump` is the table of states, `get_a_token` the loop that reads until
a state ends it, `get_a_token_str` the copy into a buffer of `TokenMax` bytes.
Characters that mean nothing to the machine may stand for words. The last part of
the module (`Written`, `Errors`) says, without the machine, which tokens stand in
a line according to the rules at the head of `master.conf` and in `zone.h`, and
what calls one after the other take out of it (`Calls`, `Taken`, `Failed`).

`Startup` follows one start: `ReadOption` is a turn of the loop of
`get_options()`, `OptionsEnd` what `main()` decides on the roles (and
`start_monitor()`, which may fail), `ReadLine` a turn of `zone_cfg_parse()` - it
skips a line, or saves the zone before and lets the handler of a key change
`zone_info` -,
`ConfEnds` the last save, `ReadList` and `ParseZone` the loop of `zone_parse()`
with the path it makes of `conf_file`. A call of the store has its effect, fails
without one, or with a part of one. Of an empty name of a zone the byte before
the buffer is looked at: a choice (`Absolute`). Each line of `file` is what one
`fgets()` returns, a string with its NUL at the end (`IsLine`). The characters of
`CONF_FILE` are the constant of `zone.h`; the buffers are assumed to hold it, and a token of at least one character.

### Packet

One action per function of the packet path, on one frame in a buffer of bytes.
`query` is the frame as it came. The DNS stage is `parse_dns`; `get_query_domain`,
one action per label (`scan_len` is how much of the name it has read; its two
limits; a byte above `CHAR_MAX`, which is a negative length where `char` has a sign;
the string that is ended only by the end of the name), `read_type` behind the name, a
lookup with any result, and `cons_dns` with `add_dns_answer`: its `memcpy()` of the
address takes `COPY_LEN` bytes, `htons(4)` = 1024, where 4 are meant, so behind the
answer the buffer holds `Garbage`, and a copy that passes the end of the buffer may
end the program (`"overrun"`; `"dead"` is the end by a negative length).
`update_udp_hdr`, `update_ip_hdr` and `update_eth_hdr` are `cons_pkt()`; `SumOf` has
the three loops of the checksum and its odd byte, `Complement` the carries. `zero` is
the byte of the pseudo header that nobody sets.

Assumptions: the machine is little-endian; the buffer has room for a label of any
length and an answer behind the frame (not for the 1020 bytes copied beyond it); of
the name a frame is said to hold it has what there is room for. All bytes of a frame
may have any value. What is read behind the end of a short frame is the rest of the
buffer. How large the DPDK engine's buffer is nobody says, its receive being a stub;
the socket engine's `s_pkt_buf` (`engine.c`) has 3072 bytes behind the place of the
datagram, and the longest reply with all that is copied ends at 1307, so that there
the copy stays inside. What a copy behind the buffer does to other memory is outside
the model.

`UdpVerifies` has a receiver that takes the length in the UDP header as it is stored,
in the pseudo header too, so that it speaks of the sum alone; that the stored lengths
are in the wrong byte order is `LengthsInNetworkOrder`.

## 3. Runs

| Run | Instance | Shows |
|---|---|---|
| `supervisor` | 3 pids, all faults, fairness | `ExitLeavesNoChild`: every `exit()` of the master, at whatever stage, leaves no child, whatever a worker in `main()` does. `NoWorkerDeathMissed`, `WorkerDeathIsReaped`: no death of the worker is slept over, each is reaped. `StoredPidsAreOwn`: a pid that the master's exit, or that of a worker in `main()` before the master reaps, kills is never somebody else's. `FailedExecIsHarmless`: the child whose exec failed kills nobody. |
| `supervisor_fork` | 3 pids, fault `fork` | *violated*: `KillsOnlyChildren` |
| `supervisor_early` | 3 pids, no fault | *violated*: `NoMonitorDeathMissed` |
| `store` | one loader, one reader, a string, a hash field, two records; redis may die, the loader may crash in `free()`; fairness | `AtomicCalls` (refinement of `AtomicStore`), `AppendOnly`, `CallsEnd` |
| `store_lost` | two loaders, a hash field | *violated*: `AtomicCalls` |
| `worker` | names of up to 3 labels into room for 2, one zone, two types, two data, whole, cut, overlong and refused datagrams | `DomainEnds`, `RightRecord`; `KeepsServing`: every question brings the loop back to the next, but for an overlong label that ends the worker; `Answered` |
| `worker_unknown` | as `worker` | *violated*: `UnknownNotAnswered` |
| `worker_zone` | as `worker` | *violated*: `ZoneNameServed` |
| `zone_file` | files of up to 9 lines out of 13 | `ServedAsWritten`: no record mixes the fields of unrelated lines, and before any line gives a TTL it is that of `$TTL`. `LoadedIfAccepted`: an accepted file is loaded, but for lines the SOA record takes for a number. `ListedIsServed`: no name is listed that is not served. `TimesAsDocumented`: a time is the sum of its numbers, each with its unit. |
| `loading` | two zones, two host names, two configurations; any number of starts, crashes, dumps, edits; fairness | `ServesTheFiles`: a master that serves has what its files say, in their order, whatever earlier loads have left. `NothingIsMissing`: even over records of older files. `ReloadChangesNothing`: loading the same files again disturbs no answer. `ListedZonesHaveInfo`: wherever a load breaks off. `LoadEnds`. |
| `startup` | all lines of up to 4 characters of 8 kinds, files of up to 2 lines out of 13 or 3 out of 6, two longer ones; command lines of up to 3 arguments | `RolesAsGiven`: `-s`, `-h`, `-?` and `-t` keep a start from what they exclude, in whatever order. `TokensAsDocumented`: the machine's tokens are those that stand in the line. `ConfAsWritten`: an accepted file has put the zones written in it into redis, each with its own type and file, and a correct file is accepted. `ZoneFilesBesideConf`: zone files are looked for in the directory of the file `-f` names, or, of a name without one, in that of its first character. |
| `packet` | frames with and without IP options that end around their headers, name and question; 14 names at and over both limits, with bytes over 127; unset bytes 0 or 255 | `AskedAsWritten`: a whole question with a legal name is looked up under that name, an illegal name is not. `AnswersTheQuestion`: the reply repeats id and question and its record is about that name, type and class. `ReplyGoesBack`: addresses and ports are turned round and nothing else in the headers is touched but lengths and checksums. `UdpVerifies`: the checksum verifies if and only if the unset byte is 0. |

A violated run checks one property that the repository states and the code does
not have; `findings` in `PROJECT.json` quotes the statement.

* `supervisor_fork`: a failed `fork()` stores -1 as a pid and the next `exit()`
  calls `kill(-1, SIGKILL)`.
* `supervisor_early`: redis dying in the window before SIGCHLD is handled and
  blocked stays a zombie the waiting master knows nothing of.
* `store_lost`: two processes appending to one list at once lose a record.
* `worker_unknown`: the worker answers a name it has no record of, with what the
  stack holds, since nobody lowers `res_num`.
* `worker_zone`: a record stored at the very name of a zone is never found; it
  lies behind the `ZONE_INFO` of that key.

Further statements of the sources are stated in the modules, each with a
configuration of its own for `tlc -config <cfg> <module>`. TLC finds each of
them violated but the last, which holds. The properties of the runs
above are silent where these fail, or say exactly when they do.

| Configuration | Statement | What TLC shows |
|---|---|---|
| `MCSupervisorAstray.cfg` | `WorkerKillsOnlyChildren`: `exit()` kills "the child processes that were started" (`main.c:21-22`) | redis dies, the worker's set-up fails, the master reaps redis and its pid goes to a stranger; the worker, back in `main()`, exits and kills it (`main.c:85-88`) |
| `MCWorkerOverlong.cfg` | `OverlongIsRefused`: a label of more than 63 bytes is refused (`dns.c:30-33`) | one datagram with a length byte of 128 or more ends the worker where `char` is signed |
| `MCZoneFileTtl.cfg` | `TtlAsDocumented`: a record without a TTL has that of `$TTL`, or else the minimum of the SOA record (`zone.h:34-36`) | it has that of the line before it, or without `$TTL` 0 |
| `MCZoneFileEaten.cfg` | `AcceptedInFull`: the numbers of the SOA record are mandatory (`zone.h:50`) | where one is missing, the line of `www` is taken for it, and the file is accepted without that record |
| `MCStartupPlain.cfg` | `ZoneFilesBesidePlainConf`: zone files lie beside `master.conf` (`zone.h:66`), and `-f xxx.conf` is a way to name one (`option.h:9`) | `-f ad` looks for the zone file `f` at `a/f` |
| `MCPacketLengths.cfg` | `LengthsInNetworkOrder`: `cons_pkt()` sets the lengths of IP and UDP (`engine_dpdk.h`) | they go out in host byte order |
| `MCPacketCounts.cfg` | `AnswersAreCounted`: the reply has one answer, in the place of the additional records (`dns.h`, `dns.c`) | it counts no answer, and the additional records of the request, which it has overwritten |
| `MCStoreTwo.cfg` | `NoDuplicates`: two loaders appending to one string and one hash field; redis may die | holds: however two appends interleave, a list gets no record twice |

More divergences follow from a single step of a model:

* a signal that ends the master (SIGTERM, SIGINT) runs no `atexit()` function,
  although `main.c:21-22` wants the children killed "when the master exits for
  whatever reason": `TerminateMaster` in `Supervisor`;
* `append_binary_in_hash()` frees an uninitialised pointer when the record is
  there already or its HGET fails (`monitor.c:66`, `monitor.c:126`):
  `LeaveAppend` in `StoreClient`;
* `add_dns_answer()` copies `htons(4)`, that is 1024, bytes of the address
  (`dns.c:89-90`), over whatever lies behind the answer: `add_dns_answer` in
  `Packet`, and `InReach` for where it may end;
* names are compared byte by byte, as redis keys, where `zone.h:31-32` wants
  them compared without regard to case;
* a TTL of 0 that is written in the file is replaced by the default: `EndOfLine` in
  `ZoneFile`;
* an error in `$TTL` or `$ORIGIN`, and a failed second `save_zone_info()`, are
  not noticed (`zone_parse.c:438`, `zone_parse.c:373`): `ReadHeader`, `ReadRR`;
* a comment or an empty line between the numbers of the SOA record refuses the
  file; a file that ends before its records is accepted: `ReadSoa`, `EndOfFile`;
* a record line without type or address is stored, and so is one whose class is
  not given by it or a line before; no query can match either: `ReadToken`;
* `master.conf:2-3` says that a zone is updated by its file; but records are only
  ever appended, so while redis or its dump keeps the records of the file before,
  they stay in front of the new ones and are answered. This is why
  `ServesTheFiles` excludes a `stale` redis: `Edit`, `Start` in `Loading`;
* times of 2^31 seconds and more overflow the `int` that `zone_parse.h` takes to
  hold a `uint32` on 64-bit machines: `Durations` stays below;
* `-f` is cut at 31 characters without a word (`CutTo`), and `start_monitor()`
  passes a path to redis that it makes before the default of `conf_file` is set;
* inside a comment over several lines an apostrophe, a backslash or an odd quote
  refuses the file all the same: `SkipLine`; a quote that is not closed in its line
  is searched for behind the end of the line: `Closed` in `Startup` excludes such
  lines from what is promised;
* a line longer than `LINE_LEN_MAX` is read as two: `file` in `Startup`;
* DPDK: the IP checksum covers `ihl`
  bytes rather than `ihl` words (`engine_dpdk.c:25` wants the header), an `ihl`
  below 5 is accepted, and `pseudo_hdr.zero` is not set, so that the UDP checksum
  is right by luck: `update_udp_hdr`, `update_ip_hdr`, `parse_pkt` in `Packet`;
* `traverse_binary_str()` takes a GET without an answer for an empty list
  (`monitor.c:219-224`), so `parse_conf()` may return RET_OK with no zone file
  read: `ReadList` in `Loading`, excluded by `skipped`.

### Bounds, and why they are enough

* Supervisor: the master has two children at a time, so with three pids a
  foreign process can take a free pid while both children live, and a freed pid
  can become a stranger's, which are all the ways pids can clash. There is no
  counter to bound. The master forks each child once.
* StoreClient: an interference needs two calls on one key. Two records make the
  difference between "there already" and new, between a lost record and a list
  that was only extended; two keys, one of either kind, separate the two append
  functions. Lists are bounded by the number of records, since no list holds one
  twice (`NoDuplicates`).
* Worker: room for two labels and datagrams of up to three gives names that are
  shorter than, as long as and longer than what fits, hence stale labels behind
  a short name, a name without an end, and a refused one. Two labels give names
  of one length. Two records under one name show which one wins. An overlong
  label may end the worker, so deadlock is not checked.
* ZoneFile: the six lines of an SOA record leave three lines for records, and two
  behind a `$TTL`. A field that is inherited takes two lines
  (three, to tell the nearest one before from any one before). The lines of the
  instance leave out each of name, class, type, TTL and address, or give a wrong
  one; `www` is a name and a number. The histories end with the file, so deadlock is not checked.
* Durations: all strings of up to four characters over three digits, the four
  units, two of them in capitals, and one character that is neither: two numbers with units, a unit
  without a number, a number without a unit behind one with it.
* Loading: two zones that have a host name in common, in an order that matters,
  and a record under the other zone's name; a second configuration that drops a
  zone, names one twice and turns the records of a name round. The number of
  starts, crashes, dumps and edits is not bounded. There are finitely many stores
  since lists hold an element once (behind a `ZONE_INFO` not, but that list is
  emptied by every load).
* Startup: four characters let every pair of kinds meet inside a line that has
  something before or behind it, and hold a quoted token. Two lines give every
  order of key lines, comments and errors; three of the six core lines put a line
  into or behind a comment, or a zone behind a zone with a file. Token and path
  buffers of 4 and 7 bytes make every copy meet its end; the command lines have
  paths with a directory of none, one and two levels, one with two slashes in a
  row, an empty one, and one that is cut. A start ends, so deadlock
  is not checked.
* Packet: a buffer of 112 bytes. Limits of 3 bytes per label and 16 per name, in
  place of 63 and 255, have names at, below and over them. Replies are longer than
  one turn of the 32-byte loop of the checksum, and their lengths end in every
  combination of the 8-, 2- and 1-byte steps. Bytes of 255 make the sums carry.
  `CHAR_MAX` is 4 in place of 127, so that labels of 4 and 5 bytes are too long and of
  negative length; `COPY_LEN` is 24 in place of 1024, so that a copy ends inside the
  buffer after short names and passes its end after long ones. A packet ends, so
  deadlock is not checked.

### Fairness

* `Supervisor!FairSpec`: weak fairness of the master's own steps - the kernel
  schedules it. Nothing is assumed of children, faults or the host: a child may
  live for ever or die at once.
* `StoreClient!FairSpec`: weak fairness of each client's step inside a call.
  hiredis answers or fails every command. The code sets a time limit for
  connecting only (`monitor.c:18`), so a redis that accepts a connection and
  never answers is outside this assumption. Nobody has to call, and a call in which the process
  crashes never returns.
* `Worker!FairSpec`: weak fairness of `process_mesg` under the same assumption.
  Nobody has to send a datagram, redis need not live, and nobody has to load.
* `Loading!FairSpec`: weak fairness of the master's steps, under the same
  assumption about redis. Nobody has to start a master, and it may be killed.
* `ZoneFile`, `Startup` and `Packet` have no liveness property and state no
  fairness.

## 4. Theorems

All of them hold for every value of the constants that satisfies the module's
`ASSUME`s; what else a theorem assumes is in its statement.

**SupervisorProofs**
* `TypeCorrect`: `Spec => []TypeOK`.
* `ExitKillsChildren`: `Spec => []ExitLeavesNoChild`. The property speaks of an
  `exit()` far behind the forks, so it is not inductive. `IInv` adds where the
  pid of each child is kept at each point of `main()`: every monitor process is
  in `child_pid` while the master sleeps and in `child_process["monitor"]`
  after, every worker process in `child_pid` before `SET_CHILD_PROCESS` and in
  `child_process["worker"]` after, and no process of the kind exists before its
  fork.
* `ExitSparesStrangers`: `Spec => StoredPidsAreOwn`, from `OwnPids`: as long as
  `main()` may still exit, what it has stored is -1 or the pid of its own child,
  dead or alive, even if a worker has run `kill_child_all()` before; and so is what a
  worker has inherited, if it exits in `main()` before the master comes to its loop.
  Both hinge on the master not reaping before it is past every `exit()`. What a worker
  kills behind that point is another matter (`MCSupervisorAstray.cfg`).
* `DeathsAreNoticed`: `Spec => NoWorkerDeathMissed`. `DeathNoticed` says where the
  notice of a death is: where the master is about to suspend, a SIGCHLD is pending
  unless no dead worker is left. `Armed`: the handler is installed before the
  signal is blocked, and both stay so
  from then on.
* `FailedExecHarmsNobody`: `Spec => FailedExecIsHarmless`, from `CopyIsBlank`:
  the copy a monitor child inherits names no process but the master.

**StoreProofs**
* `TypeCorrect`.
* `ListsHoldEachRecordOnce`: `Spec => []NoDuplicates`, for any number of
  writers. The invariant adds that what an append has read holds each record
  once and not its own.
* `OneWriterAppends`: `Spec => AppendOnly` if at most one client writes. The
  invariant: between its GET and its SET, what the writer has read is still what
  is stored.
* `OneWriterIsAtomic`: `Spec => AtomicCalls`, the refinement, if at most one
  client writes, whether the uninitialised pointer is harmless or the process
  crashes. The initial states map to initial states and every
  step to a step or a stutter.

**WorkerProofs**
* `TypeCorrect`.
* `DomainStaysInBounds`: `Spec => []DomainEnds`, for all sequences of datagrams
  of any length.
* `RightRecordIsServed`: `Spec => []RightRecord`. The invariant follows the
  question through the loop: after `parse_dns` a whole question is in `domain`
  with its end, after `query_zone` the first record of `before` is in `rr_res`;
  and it says that the first match of a list stays its first match while others
  load, since lists grow at their end.

**ZoneFileProofs**
* `TypeCorrect`: `Spec => []TypeOK`, whose point is that everything stored has an
  absolute name: `rr` is free of that only until `EndOfLine`.
* `ListedNamesAreServed`: `Spec => []ListedIsServed`. The invariant adds that
  between the two store calls the record is in the store already (`Stored`).
* `RecordsAreAsWritten`: `Spec => []ServedAsWritten`, and `AcceptedIsLoaded`:
  `Spec => []LoadedIfAccepted`. Of a line without a TTL the first says that it has that
  of `$TTL` as long as no line before gives one, and nothing further on
  (`MCZoneFileTtl.cfg`); the second excepts the lines that may be taken for a number of
  the SOA record (`MCZoneFileEaten.cfg`). The
  invariant ties `rr` to the lines at every place
  of the loop. Between two lines, and before the first token of one, `rr` has the
  name, class and TTL that the lines so far come to (`Between`, `Begun`, with
  `Carries`); inside a line it has what the tokens read so far make of that
  (`Within`, `Half`: the last number among them counts for the TTL); behind it, it
  is the line's record (`Finished`). A token moves `Half(c)` to `Half(c + 1)`.
  `LoadedSoFar` adds that, unless the file is refused, every line up to `Done` has
  its record served and its name listed; `Accounted` that every address line read has
  come to `parse_rr()` or begins with a number. The lemma `LinesStay` is why what has been
  stored stays right: what the first lines mean does not depend on later ones, and
  `$TTL` does not change behind the header. The "last line that gives a field" is a
  CHOOSE over a finite set (`LastExists`).

* `TimesAreAsDocumented`: `Spec => []TimesAsDocumented`, for strings of any length.
  `Turn` keeps, at each position, that what is summed up and what is still without
  a unit, taken for what a digit is worth there, are the total of the digits so
  far, by induction over the positions.

**LoadingProofs**
* `TypeCorrect`: `Spec => []TypeOK`, for all configurations.
* `ListedZonesAreKnown`: `Spec => []ListedZonesHaveInfo`. The invariant adds that
  between the two calls of `save_zone_info()` the zone about to be listed has its
  `ZONE_INFO`, which no later write takes away.
* `NothingIsLeftOut`: `Spec => []NothingIsMissing`, and `ReloadsAreHarmless`:
  `Spec => ReloadChangesNothing`, if no host has the name of a zone. `FilesInv`
  says that the zones of `master.conf` listed so far are in the list, that the
  files done so far, and the lines of the present one, are in the store, and that
  a `full` redis has all of the present files; stores only grow where host names
  are concerned (`Grows`).
* `FilesAreServed`: `Spec => []ServesTheFiles`, for all configurations, under the
  same assumption. `OrderInv`: as long as no other files have been loaded, in redis
  and in its dump every list is in the order of the places of its elements and
  without gaps (`Orderly`), and what `todo` and `lines` still hold is the end of the
  list of zones and of the present file, all that comes before being stored. A list
  in that order and without gaps stays so when an element is appended whose
  predecessors are all there (`RankedWith`); what the property says of the whole
  then follows once everything has been read.

**StartupProofs**
* `OptionsAreHeeded`: `Spec => []RolesAsGiven`, for all command lines and
  configurations. The invariant (`RolesKept`): the arguments read so far that ask
  for SIGNALLER, HELPER or TESTER are in `role`, which no later option takes away.
* `Types`: `Spec => []TypeOK`, whose point is that tokens, with the dot
  `create_zone_info()` adds, and paths fit into their buffers for lines and command
  lines of any length and content. The lemmas on the tokenizer (`JumpIs`,
  `FinishIs`, `ScanIs`) follow the machine character by character: where a token
  begins and ends in each state (`Scanned`). `TokenIs` and `Fits` say what
  `get_a_token_str()` returns.
* `FilesBesideConf`: `Spec => []ZoneFilesBesideConf`, for every name that does not end
  in a slash, be it too long or without a directory (where the code takes its first
  character for one: `MCStartupPlain.cfg`). `BesideInv` says that
  `conf_file` is the last `-f` among the arguments read so far (`ReadUpTo`), then
  that or the default, and that each opened path comes from a stored zone;
  `DirIsPart` is why `dirname()`'s length cuts the path at its last slashes
  (`DirOfPath`), or, where there are none, behind its first character (`DirOfPlain`).
* `TokensAreTaken`: `Spec => []TokensAsDocumented`, for lines of any length. It has
  two inductions. Over the characters of a call, `Reads` says where the machine
  stands in the line: separators behind it, or inside a word, in quotes, or behind
  half of a sign; a call that begins at a `Boundary` ends with the next word of the
  line (`FoundNext`), with the line's end (`FoundNone`) or at its next error
  (`FoundError`). Over the calls, `Follows` says that what has been taken is what is
  written in front of the place where the next call begins.
* `ZonesAreWritten`: `Spec => []ConfAsWritten`, for files of any length and content.
  `ConfInv`: `multi_comm` is `InComment` of the next line; the zone being read has
  what the lines so far say of it (`ZoneUpTo`), and the zones before it are in redis
  as the whole file has them (`Saved`, `ReadUp`), since nothing behind the next
  `zone` line belongs to them (`ZoneComplete`); list and `ZONE_INFO`s go together,
  one of a name (`ListInv`). `LineRead` has from `TokensAreTaken` what the two calls
  for a line return; a refusal (`"format"`) is traced back to a line that is in
  error.

**PacketProofs**
* `ChecksumCompletes`: for every sum of 32 bits, `Complement` is a 16-bit word
  that completes it to a multiple of 2^16 - 1: two additions of the carries are
  enough, however the first one carries.
* `Types`: `Spec => []TypeOK`, for buffers and frames of every size. `RoomInv` says
  at each stage how far `cur_pos` may be: within a frame, past it by a label, and
  with room for the answer. All that is read and the whole answer lie in the buffer;
  the copying of the address passes its end only where the buffer ends less than
  `COPY_LEN` bytes behind the longest reply (`InReach`).
* `GoesBack`: `Spec => []ReplyGoesBack`. `PartsInv`: until the headers are written,
  the buffer is still the frame; from then on each of its parts (`EthPart`,
  `IpPart`, `UdpPart`, `DnsPart`) is as the stage has made it. Of the values of the
  lengths nothing is said: they are wrong on the wire (`MCPacketLengths.cfg`).
* `UdpSumVerifies`: `Spec => []UdpVerifies`, for replies of every length. The loop
  over words and the one over single bytes make the sum a receiver makes, by
  induction over their turns; `SumInv` carries the sum of the checksummed bytes
  through the exchange of the addresses, which are in it both.
* `Asks`: `Spec => []AskedAsWritten`, for names of any number of labels of any bytes
  and lengths, negative ones included. `NameInv` says that the scan stands between
  two labels and that what it has written is the text of the labels behind it, each within its limit.
* `Replies`: `Spec => []AnswersTheQuestion`, from `NameInv` and what `cons_dns`
  and `add_dns_answer` write behind the question. It leaves out the counts
  (`MCPacketCounts.cfg`).

**Inductions** has the induction they use. The induction theorems of the library
take an operator, which the provers cannot instantiate; here a set of numbers
takes its place (`SetInduction`, `BoundedInduction`): a set that holds 0, and with
a number the next one, holds all. It comes from the greatest element of a finite
set (`Greatest`, `Least`). `RecursionExists` gives the function that an equation
`f[n] = ... f[n - 1] ...` defines, for folds and loops over 0 .. N.

Only model-checked:

* the liveness properties (`WorkerDeathIsReaped`, `CallsEnd`, `KeepsServing`,
  `Answered`, `LoadEnds`): they need fairness and ENABLED, out of the prover's
  reach;
* the properties of the runs that expect a violation, and of the configurations
  listed behind them, which are false.

Every other property of the runs is a theorem, and so is `NoDuplicates`.

## 5. Plan

Done: the modules above with their instances and theorems, in this order:
`Supervisor`; `AtomicStore`, `StoreClient`; `Worker`; `ZoneFile`; `Loading`;
`Tokenizer`, `Startup`; `Packet`; `Durations`.

What would add most next:

1. `Loading` takes a zone file as the sequence of its records, and `ZoneFile`
   makes up its lines as it reads them. With the file a constant of `ZoneFile`,
   `AcceptedIsLoaded` would become a refinement: `AppendRR` and `ListName` of
   `Loading` for one zone.
2. A second worker, should `start_other_worker()` ever get a body.

## 6. Not modelled

* The log, the statistics and the pcap reader: they only write, or only read.
* The set-up of DPDK, its receive and its send: stubs in the code. `Packet` starts
  with a frame that has been received.
* What a copy behind the end of a buffer does to other memory, and what a process does
  after it: in `Packet` it ends there or goes on as if nothing had happened.
* The generator of `statistics.c`, build files, unit tests: not part of the
  running program. The tests were read for what functions are meant to do.
* GeoIP look-up: its result is not used.
* What redis and hiredis do inside a command; the wire format of the commands.
* The printing of what has been parsed (`print_parse_res()`), beyond its success
  or failure in `Supervisor`.
