# Verification of dnsmultizone

dnsmultizone is a DNS forwarder. It sends every query of a client to the
upstream servers of several *zones* at once, looks at the addresses in each
answer, and gives the client the answer of the first zone, in priority order,
whose own address lists the answer matches. These modules model its control:
the transactions, the judgement of answers and their rewriting, the lookup of
addresses, the event loop, the queue of answers, and the life of the process
with its configuration and the files it watches. TLC checks them on small instances; TLAPS
proves their safety properties and the refinement of the transaction for every
value of the constants.

Source paths below are relative to `src/src/`.

## The system

| Component | State | Operations |
|---|---|---|
| Transaction (`DNSQueryWork`, `DNSQueryWorkItem`) | the items of one client's outstanding queries: type, scan cursor, a state and an answer per zone; one connection per zone; last touch | `Init`, `ServerNewWork`, `DNSQueryResult`, `DNSQueryDisconnect`, `SendResult`, `Finish`, `Exit` |
| Upstream connection (`DNSConnect`) | a connected UDP socket, its epoll interest, a queue of queries the kernel was not ready for | `Init`, `Read`, `Write`, `Disconnect`, `SendDNSQueryBuffer`, `Exit` |
| Client side (`ServerConnect`) | the reply address: the client, and the local address of its latest packet | `SetLocalAddr`, `OnRecvData`, `SendDNSResultBuffer` |
| Managers (`WorkManager`, `ConnectionManager`, `MapManager`) | transactions by client, connections by descriptor, the clients whose transaction became idle | `SaveItem`, `GetItem`, `DeleteItem`, `DNSQureyWorkClose`, `CloseIdle`, `ClearTimeout`, `ExitAndClear` |
| Event loop (`Server`) | the batch of events, the time of the last cleaning, the queue of answers | the loop of `main`, `OnListenRead`, `OnListenWrite`, `SendTo` |
| Messages (`Rfc1035`, `AutoBuffer`) | none | parsing of queries and answers, `DropAddress` |
| Address lists (`ConfigType`) | sorted lists of prefixes | `LoadFile`, `CheckIsMatch` |
| Configuration (`Config`) | the zones; for each, its upstream address, whether it is good, and the modification time of the file it was read from | `Init`, `LoadConfig`, `LoadConfigJson`, `RefreshResolvConf`, `ReloadResolvConf` |
| File watching (`FileINotify`) | an inotify descriptor, the watched directories and names | `Init`, `INotify`, `Exit`, `Reset` |
| Process (`main`) | the descriptors made so far, the signal handler | start, the event of exit, the way out |
| Utilities, logging, JSON (`Util`, `SLog`, `epoll_util`, `CxxRuntime`, `cJSON`) | none of interest | |

Everything runs in one thread. `main` waits in `epoll_wait`, handles a batch of
events, closes the transactions that were answered, and cleans up by timeout at
most once per second. A packet on the listening socket goes to the transaction
of its client, which is made with its sockets if there is none; the transaction
sends it to the zones. An event on an upstream socket is looked up in the
`ConnectionManager` and calls the connection, which calls the transaction back;
the transaction may answer the client through `Server::SendTo` and, when
nothing is left to answer, asks the `WorkManager` to close it after the batch.

So the hard part is not concurrency of threads but the order of events and what
is remembered between them:

* answers of several zones in any order, against a scan that starts where the
  last one stopped;
* queries and answers repeated, lost or late, IDs used again, sends refused,
  sockets not ready or in error, each at any moment;
* descriptors closed and reused while events that name them are pending;
* transactions idle, revived, and timed out, in the same round;
* answers queued behind a full socket buffer;
* files written by other processes, in several steps and at any moment, against
  readings caused by events of other files and times kept in seconds;
* an answer rewritten in place of its bytes, with pointers into what is moved;
* a start that can fail after any of its steps;
* a binary search that meets lists nobody has ordered for it.

The hazards are listed, line by line, in `PROJECT.json`.

What makes the components correct, in short: the client gets the answer of the
first zone that matches, or the fallback, and to the question it asked unless it
has itself made the zone owe it another answer under the same ID (transaction); a zone that is awaited has something to answer (connection); no
socket leaks, none is closed under a pending event, and every transaction ends
(managers, loop); the threshold is monotone and sees the right family
(judgement); an address is found exactly if a range of the list holds it (lists);
answers leave in order and none is forgotten (queue); a rewritten answer is a
well-formed answer whose answer records lost hints and nothing else, and no address
of an answer record was left unjudged (messages); loading is all or nothing (configuration); every zone
uses what its file says, sooner or later (file watching); descriptors are
released once on every path (process).

## The modules

`ZonePolicy` -- pure. Which zones are asked (`Asked`, `ZoneTakesPart`), what an
answer says about its zone (`Verdict`, the long conditional of
`DNSQueryResult`), and whether it can be rewritten for the client
(`Rewritable`, `DropAddress`). Zones are numbers in priority order, the index of
`m_vsZoneInfos`. An answer is abstracted to its form (all of it parses, its
question only, not even that), its type, whether it is NXDOMAIN, and for each
family how many addresses it carries and how many of them the zone's lists
match. The two ways `DropAddress` can fail are the form and, for SVCB and HTTPS,
`walk`: whether the walk through its records succeeds.

`DNSConnect` -- pure. One connection as a record: whether the socket exists,
whether epoll watches it, and the queue. Its operators say what
`SendDNSQueryBuffer`, `Write` and `Disconnect` make of it, given the kernel's
answer.

`DNSQueryWork` -- the machine of one client's transaction. Variables and code:

| Variable | Code |
|---|---|
| `open`, `idle` | the client's key in the `WorkManager`, in `m_ssIdle` |
| `items` | `m_mwDNSQureyWorkItems`, by ID, with `m_nMaxDoneIndex` (`maxDone`), `m_eState`, `m_sDNSData` |
| `conns` | `m_vsDNSConnects` |
| `local` | `m_raReply.piLocal` |
| `flight` | the network: queries on the way to an upstream, or answered on the way back |
| `packets` | bound on what the client sends |
| `origin`, `finished` | history: the packet an item was made for, with what each zone owed an answer under its ID; the query the last step finished, with the states its scan saw |

An action is a whole handler: `ServerNewWork` is one packet from `recvmsg` to
the last `send`; `Read` is `recv`, `DNSQueryResult`, `SendResult` and `Finish`;
`Write` is a whole `EPOLLOUT`, whose number of sent queries and lost ones the
kernel chooses; `DNSQueryDisconnect` is a whole error event; `CloseIdle` and
`Timeout` are this transaction's part of the end of a round. The constant `Env`
says what the environment may do, so that one specification serves both
the runs that must survive everything and those that state what holds if, say,
no answer comes twice. Without `"reuse"` a client asks a new question only under
an ID that is not in use and that no zone owes an answer any more
(`ClientMaySend`, `Owed`); with it, anything under any ID at any moment.

`Resolution` -- what a transaction promises, without sockets, queues, cursor or
stored verdicts: a query is asked, its zones tell or fail, and the first answer
that decides it finishes it with the first zone that matches, judged anew.
`DNSQueryWork` implements it (`ImplementsResolution`) under the mapping at the
end of the module, as long as no query or answer is repeated.

`EventLoop` -- the machine of the thread: `epoll_wait` (`Tick`, `Poll`), the
events of a batch in any order (`OnListenRead` one packet at a time up to
`DEF_READ_PER_EVENT`, `Read`, `Disconnect`, `Exit` in the middle of it), then
`CloseIdle` and `ClearTimeout`. It keeps of a transaction its descriptors, the
IDs it has to answer and its age. Descriptors are a small set the kernel reuses
at once. Time is counted in ticks and passes only in `epoll_wait`.

`Judging` -- answers grown address by address, to check the judgement of
`ZonePolicy` as the counting loops do it.

`ReplyQueue` -- the queue of answers in front of the listening socket
(`SendTo`, `OnListenWrite`, `UpdateListenEvents`), with the socket buffer and
the network. An answer is a number, in the order `SendTo` got it. `OnListenWrite`
is one step for each round of its loop (`SendFront`) and one for its end
(`StopWriting`), because the network takes packets from the buffer between two
sends; `writing` says that the thread is in it.

`IPList` -- the address lists of one zone. `tables` is `m_siIPInfos`; an item is
the range a line denotes, which is what the mask arithmetic of `MatchCompare`
(and `memcmp` after `ApplyMask`, for IPv6) tells apart. Loading takes a line at a
time (`ReadLine`) and gives it a place in the sorted vector, any of the places if
several items begin at the same address, as `std::sort` may. A lookup takes one
step per iteration: `ZoneInfo::CheckIsMatch` is `EnterTable`, `SkipTable`,
`Report` and `NoTableLeft`, `IPInfo::CheckIsMatch` the `Probe` between them, with
`begin`, `end` and `ret` its variables. Positions begin with 1, and
`(begin + end) \div 2` is then the code's middle plus one. `probes` is history.

`ConfigFile` -- `LoadConfigJson`, one element of `zoneList` at a time, and the
sorting. The file is a record of what it holds: whether it is JSON, whether
`bindIP` and `serverPort` are usable, and its zones with the fields the loading
decides by. `Sorted` admits every order of zones with the same priority.

`ResolvWatch` -- extends it with the resolv.conf files: `RefreshResolvConf`
(`Stat` and `Load` are two steps, between which writers may act),
`FileINotify::Init` (`OpenNotify`, `WatchFile`, ...), `INotify`, and the
environment: writers that truncate and write line by line, move a file into
place, with a time of its own, unlink, retarget a link, or touch other files, and the queue of
inotify events, which merges equal neighbours and overflows.

| Variable | Code |
|---|---|
| `zones` | `m_vsZoneInfos`, with `m_tResolvConfFileTime` (`time`), `m_ssDNSAddr` (`addr`), `m_bIsDNSAddrOK` (`ok`) |
| `at` | the iterator of the loop over them |
| `notify`, `watching`, `links` | `m_fdINotify`, `m_ssWatchFile`, `iMaxLink` |
| `disk`, `target`, `now`, `queue` | the files, where the paths lead, the clock in seconds, the events not yet read |
| `fresh`, `missed` | history: zones whose file is as they read it; zones whose file changed without an event |

`Startup` -- extends that with `main`: options, configuration, descriptors one by
one, daemon mode, the first reading, the watching, the exit event, the signal,
and `end:`, where every failure leads. `held` is what the program has a number
of, `open` what is open. Of the loop it keeps the inotify event and the exit
event; `EventLoop` has the rest, and a transaction made by it uses `Upstream`.

`Wire` -- the buffer of an answer, in cells: a label, a pointer, the fixed fields of
a record, the head of a parameter, a value. Offsets count cells. The upstream
builds an answer (`built`, with the places of its records in `heads`) a record
and a parameter at a time, with names compressed in every way that leads back to
a name, and behind them records of the authority and the additional section
(`behind`, of the types `Extras`), and sends it all (`wire`) as it is or damaged:
cut off after a cell, or with an answer record or a parameter that is shorter or
longer than it says. The two sections are one here, because nothing in the code
tells them apart: it goes through the answer records and stops.

`Rfc1035` -- `ParseResponseA` and `DropAddress` over that buffer, a record or a
parameter at a time. `p`, `end`, `i`, `out` and `at` are the variables `p`, `end`,
`i`, `sOut` and `lenpos` of the code. `removed` is `vRemoved` as `CopyName` uses
it: for each offset, the sum of what was removed before it. `was` (history) says
where each cell of `out` stood. `SendAsIs` gives the client the whole of `wire`
with what stands behind the answers; a copy ends with the answer records
(`SetCounts`). `ZonePolicy` abstracts the same
functions to what the transaction sees of them.

`MCDNSQueryWork`, `MCIPList`, `MCStartup`, `MCRfc1035` -- constants for TLC.
`DNSQueryWork_proofs`, `Resolution_proofs`, `EventLoop_proofs`, `IPList_proofs`,
`ReplyQueue_proofs`, `Judging_proofs`, `Startup_proofs`, `Rfc1035_proofs` -- the
proofs.

Operators whose comment begins with "Slip:" are mistakes the code does not
make: each replaces the definition after it in one check, and a property must
then fail. They are no part of the specifications.

## What the runs show

| Run | Instance | Shows |
|---|---|---|
| `resolved` | 3 zones, 2 IDs, 2 packets, questions of two types, unavailable upstreams, full buffers, refused sends, lost sockets, timeouts | `FirstMatchWins`, `SilentOnlyIfFirstFailed`, `ImplementsResolution`. `StrandedOnlyByFailure`: a query without an awaited zone has lost one to an error. `NeverSendsEmpty`: what is sent is an answer a zone has sent |
| `answered` | 2 zones, 2 IDs, 2 questions, 2 packets with anything under any ID, duplicates, full buffers, packets too short | `ScanCursor`: no zone before the cursor is awaited. `WrongAnswerOnlyIfOwed`: see below. `AwaitedIsPending` and, under fairness, `EveryQueryFinishes`: by its answers, not by the closing of a transaction that was idle |
| `late_answer` | 2 zones, repeated queries and answers | violates `SilentOnlyIfFirstFailed`: see below |
| `two_addresses` | 2 IDs, 2 local addresses | violates `LeavesFromAskedAddress` |
| `lost_fallback` | 2 zones, a socket in error | violates `FallbackReturned` |
| `rounds` | 2 clients, 2 zones, 2 descriptors, interval 2, timeout 1 | `BatchEventsValid`, `ManagerExact`, `AnsweredAreClosed`, `ExitLeavesNothing`, `TimeoutBound`, and, under fairness, `BatchEnds` |
| `judging` | 5 zones with every combination of lists and `denyNXDomain` that matters, up to 4 addresses of a family | `MoreThanAThird`, `Monotone`, `OtherFamilyIgnored` |
| `lists` | 4 lines in up to 2 lists, 5 addresses, prefixes of 1 and 2 addresses, lists that admit, deny, are turned round, or are of the other family | `AgreesWithMembership`: the lookup finds what the ranges hold, if none lies within an earlier one. `NeverInvented` (on every list), `SearchEnds` |
| `nested` | one list, 3 lines, prefixes of 1, 2 and 4 addresses | violates `EveryRangeMatches` |
| `replies` | 16 answers, 3 of them refused by the kernel, a buffer of 4 | `InOrder`, `NothingForgotten`, `ArmedWhileQueued`, and, under fairness, `EveryReplyLeaves` |
| `watch` | 14 files of configuration, two zones with files, one behind a link, 2 seconds, 2 changes of files, 2 events to a read, a queue of 2 | `LoadedAsWritten`: all or nothing, and in order. `StaleOnlyBySecond`: when all is quiet a zone uses the first nameserver of its file, or missed the event, or the second is that of the last reading. `FreshServes`: events of other files do no harm. `ReleasedOnce`, `OutlivesShortNames`, and, under fairness, `ChangeArrives`, `InterruptStops` |
| `rewrite` | up to 3 answer records of 3 types and those of two types behind them in 18 cells, parameters of 1, 2 and 3 cells, every way to point back, every damage | `NamesKept`, `StaysFramed`, `OnlyHintsGo`, `CutAtAnotherType`: the copy is the answer records without the hints, up to a record that could not be moved. `WholeIsPassedOn`, `NothingUnjudged`: what arrives undamaged is never kept back, and what was understood, damaged or not, carries no address in its answer records that was not collected to be judged, a copy none at all; what the sections behind the answers carry goes unjudged, see below |

`TypeOK` of `IPList` and of `Rfc1035`, which say that the search and the walk stay
within the list and the buffer, are checked in `lists` and `rewrite`; those of
`DNSQueryWork` and `Startup`, which hold few surprises, are left to their proofs
(`TypeCorrect` of each).

### Where the code and its documentation part

* `late_answer`. `README.md:49` promises the first zone's answer when none
  matches. A client that repeats its query makes each awaited zone answer
  twice. If a zone the scan has passed as NOT_MATCH sends a second answer that
  matches, `DNSQueryResult` stores MATCH behind the cursor; when the last zone
  does not match, the scan ends, zone 0 is not in NOT_MATCH (or is not the one
  that matched), and nothing, or only the fallback, is sent.
* `two_addresses`. `README.md:45` says an IPv6 answer leaves from the address
  the query was sent to. The address is kept per client, not per query: a second
  query from the same address and port overwrites it.
* `lost_fallback`. When the last awaited zone reports an error instead of
  answering, `DNSQueryDisconnect` settles it but does not scan; the stored
  fallback is not sent and the query waits for the timeout. (A send that is
  refused in `ServerNewWork` does the same.)

* `nested`. `README.md:48` asks for files with "one address or CIDR per line", in
  any order and without a condition on how the ranges lie. The search compares
  one item and drops the half before it, where a wider range may begin: with
  10.0.0.0/8, 10.1.0.0/16 and 10.2.0.0/16, the address 10.200.0.1 is not found. If
  two ranges begin at the same address, their order after `std::sort`, hence the
  answer, is open. `AgreesWithMembership` says how far the search is right: as
  long as no range ends before an earlier one does.

Five more show in the conditions of properties that hold:

* `WrongAnswerOnlyIfOwed` lets the client get an answer to another question than
  its query asked. `DNSQueryResult` finds a query by its ID alone
  (`DNSQueryWork.cpp:187`) and looks at no question. A finished query is erased
  (`:316`), but its sockets stay while another query needs them: if a zone still owes it
  an answer when the client asks something else under the same ID, that late answer is judged
  as one to the new question, and given for it. So is an answer to either question
  if a live ID is asked something else. The property says that there is no other
  mix-up: the answer was owed by the very zone it is taken from, to this
  client, under this ID, in this transaction. Nothing in the repository promises more.
* `StaleOnlyBySecond` excuses a change within the second of the last reading.
  `README.md:10` says the file is "watched via inotify and reloaded on change";
  `Config.cpp:298` compares `st_mtime` in seconds, so a file that was read while
  it was being written, or is written twice in a second, stays as it was first
  read until another second's change. Changes before the watch is set up, and
  those whose event an overflow swallowed, are excused too.
* `OutlivesShortNames` excuses names of 240 bytes and more. `NOTIFY_NAME_MAX`
  (`FileINotify.h:4`) is meant for the longest name, but the kernel pads the
  name and its null to a multiple of 16, so that such an event is larger than the
  buffer; `read` fails with `EINVAL` and the process ends, although `INotify`
  has no interest in the name.
* `LoadedAsWritten` excuses negative priorities: `Config.cpp:169` stores them
  unsigned, which makes them the last, where `README.md:46` has zones "matched
  in ascending `priority` order".
* `NothingUnjudged` speaks of the answer records. `ParseResponseA` goes no further
  (`Rfc1035.cpp:43`), while the whole message is handed on when nothing is to be
  dropped for the type asked for (`DNSQueryWork.cpp:302`, `Rfc1035.cpp:266`): the addresses of the authority and
  additional sections, where those of a target often are (the comment at
  `Rfc1035.cpp:328`), reach the client without having been compared with any list.
  With something to drop, a copy of a SVCB or HTTPS answer, and the empty response
  to A or AAAA, have those sections cut off. Nothing in the repository promises that
  these addresses are judged.

### Bounds

* Two and three zones: the scan compares a zone with those before it and the
  cursor with the end; three zones have a zone before, at and after the cursor.
  More zones repeat these cases, and the proofs hold for any number.
* Two packets make a query and its repetition, two queries at once, or a query that
  is finished early and another question under its ID: the transaction is there until
  the end of the batch, with the answers still owed, as it is when another query keeps it
  longer. `packets` starts again when the transaction closes, so histories of several transactions are explored, with what an
  earlier one may leave behind.
* Two bodies, an address inside the lists or outside; `judging` covers the rest
  of the judgement.
* Two descriptors for two transactions of two zones: reuse, sockets that cannot
  be had, and one client taking what another left. `EventLoop_proofs` holds for any.
* `answered` has `"reuse"` in `Env`, the other runs do not; `ScanCursor`,
  `StrandedOnlyByFailure`, `NeverSendsEmpty` and `WrongAnswerOnlyIfOwed` are proved
  for every `Env`, and with any number of packets.
* Four lines give a search of several iterations with both halves, the last two
  items and the last one; two lists, an earlier list that decides or does not.
  `IPList_proofs` holds for any number of both.
* `watch`: two changes (of any kind, each of several steps) are one that is read
  and one that races the reading; the bound on `now` lets them fall into the
  same second or not. All files are in one directory; with more, only events
  no name matches are added, which the other names (`Others`) stand for.
  `PriorityRange` is 256 instead of 2^32.
* `rewrite`: three records are one that loses a hint, one behind it, and one whose
  names point into either; damaged answers have one record less. 18 cells
  (`MaxCells`) hold the question, three records and two or three parameters, or
  fewer and one to four records behind them, which are an address the code does not
  look for (`"A"`) or something else (`"TXT"`, for NS, SOA and OPT too; a SVCB record
  there, which the code passes over like any other, is left out);
  `Rfc1035_proofs` holds for any number of all. Damage falls between cells: a field cut in the middle is not modelled, and reads as one
  that is missing.
* `MaxReplies` is four times the buffer, so the queue forms and drains several
  times around the refused answers.

### Fairness

The liveness runs assume that the loop serves what epoll keeps reporting:
sockets are level-triggered, every event of a batch is handled, and a batch is
finite (`BatchEnds`). Hence weak fairness of `ReadSome(z)` and `WriteSome(z)` for
each zone, of `CloseIdle`, and of the thread itself (`Run`); in `Startup` of nothing
but the thread, so `ChangeArrives` and `InterruptStops` hold against writers that
stop half-way. Besides it is assumed that an upstream answers every query that
has reached it (`ReadAnswerTo`, for each ID), and that socket buffers
drain; no fairness is assumed of clients, errors or signals. `lost_fallback`
also has weak fairness of `Timeout`, which makes its counterexample the stronger:
the timeout does come, and the fallback does not. In `answered`, `replies`, `lists`, `nested`,
`judging`, `rounds`, `watch` and `rewrite`, a state without a successor is one in which the system
may really stop (a silent client, all answers sent or judged, the process has exited or refused to start), so
deadlock is not checked there; it is in all other runs.

## What is proved

In `DNSQueryWork_proofs`, for any zones, lists, IDs, questions, answers, bounds
and environment:

* `TypeCorrect`, `ScanCursorHolds`, `StrandedByFailure`, `NothingEmptySent`:
  the specification satisfies `TypeOK`, `ScanCursor`, `StrandedOnlyByFailure` and
  `NeverSendsEmpty`.

The inductive invariant `IInv` joins the types with `Sound` for every item:
`CursorHolds` (no zone before the cursor awaited; the zone at the cursor awaited
or failed since) and `DataHolds` (a matching zone, and zone 0 when it does not
match, has an answer stored). `ScanCursor` alone is inductive only together with
what a scan does to the cursor (`ScanKeepsSound`), and `NeverSendsEmpty` needs `DataHolds`
because the answer sent was stored steps before. `StrandedOnlyByFailure` follows
from the zone at the cursor: if nothing is awaited, that zone has failed. That
zone 0 has an answer when it does not match rests on zone 0 always being asked.

In `Resolution_proofs`, which goes on from there:

* `QuestionsAnswered`: `WrongAnswerOnlyIfOwed`, for every `Env`.
* `RightAnswers`: every answer is one to the question of its query
  (`RightAnswer`), if `"reuse"` is not in `Env`: no client asks something else under an ID that is live
  or that a zone owes an answer. `RightAnswer` is false without that condition.
* `AwaitedArePending`: `AwaitedIsPending`, if `"fail"` is not in `Env`: no send is
  refused for good. (Without that, `DNSConnect.cpp:65` drops a queued query and
  tells nobody, so the property is false.)
* `FirstMatch`, `SilentIfFirstFailed` and `Refinement`: `FirstMatchWins`,
  `SilentOnlyIfFirstFailed` and `ImplementsResolution`, if `Orderly`: no query is
  repeated, nothing asked under an ID that is live or owed an answer, no packet duplicated by the network. Lost sockets,
  refused sends, full buffers, answers in any order and form, and timeouts remain.
  The environment of `resolved` is such a one; without `Orderly`, `late_answer` is
  the counterexample.

`QuestionsAnswered` rests on `Traced`: what is queued, in flight or stored for a
live query answers its question or one its zone is remembered to owe, and a new transaction
begins with nothing pending. `RightAnswers` adds that nothing else is owed
(`NothingElse`), `AwaitedArePending` on a socket that is up
wherever a zone is awaited (`AllExpected`). The others rest on `InTurn`: each query is pending at a zone
at most once, and only while it is awaited there, so that a verdict is written
once. Then the zones before the cursor have told their last, and the scan finds
what looking at all of them anew would find. The refinement takes the abstract
statuses from the verdicts (`Standing`) and the decision from the scan
(`ScanDecides`); each action is one abstract step or a stutter (`PromisedStep`).

In `EventLoop_proofs`, for any clients, zones, descriptors and times:

* `ManagerIsExact`, `EventsStayValid`, `AnsweredTransactionsClose`, `ExitIsClean`,
  `TransactionsTimeOut`: the five safety properties of the loop.

Its invariant adds to them that events of a batch name watched or just
forgotten sockets that are still managed, that an answered transaction is
marked idle until `CloseIdle`, and how age, `sinceClean` and `waited` bound each
other: a transaction that is too old was young enough at the last cleaning,
which was at most an interval and a sleep ago.

In `IPList_proofs`, for any addresses, prefixes, lists and lines:

* `TypeCorrect` (the search never indexes outside the vector),
  `LookupIsMembership`, `SearchLeavesNothing`, `MatchIsCovered`, `SearchTerminates`.

The invariant says that `[begin, end]` holds every item the address can be in.
Going down keeps it because the items are sorted by their first address
(`BelowOnly`); going up, because their last addresses are ordered too (`AboveOnly`),
which is the condition a nested list breaks. Termination is the invariant that
iterations done and items left do not exceed the length of the list.

In `ReplyQueue_proofs`, for any number of answers, any buffer and any refusals:

* `NoOvertaking`, `NoneForgotten`, `ArmedAsNeeded`: `InOrder`, `NothingForgotten`,
  `ArmedWhileQueued`. The invariant `Delivers` says of wire, buffer and queue
  together that they hold the answers given, in order, but for refused ones;
  each step takes from the front, appends the next, or moves the borders.

In `Judging_proofs`, for any number of addresses and any zones:

* `AThirdDecides`, `MonotoneAlways`, `OtherFamilyNever`: `MoreThanAThird`,
  `Monotone`, `OtherFamilyIgnored`. The lemma below them, `Quotient`, is about the
  integer division of the code: the quotient is at most 2 exactly when more than
  a third match.

In `Startup_proofs`, for any configuration, files, writers, clock and queue:

* `DescriptorsReleased`, `FilesDoNotStop`: `ReleasedOnce` and `OutlivesShortNames`.
* `FreshServed`, `OnlyTheSecondMisleads`: `FreshServes` and `StaleOnlyBySecond`.
* `AllOrNothing`: `LoadedAsWritten`.
* `TypeCorrect`: `TypeOK`.

`ReleasedOnce` is inductive as it stands. `OutlivesShortNames` is proved with
`Places`, which ties the place of the thread to what is watched and armed:
`RefreshResolvConf` is called from two places, and returns to the loop only if
the watch, hence the exit event, was set up.

The two about the files are proved with `SInv`. Its core is `Noticed`: a finished
file whose second is not the one remembered will be read (`Due`), by the
reading under way, whose loop has yet to come to the zone, or for an event still in the
queue. Writers keep it because an event is queued or the change is `missed`, and
once the files are watched the watch covers them all (`AllFollowed`); reading
the events keeps it because the one taken out starts a reading of all zones.
`LoadedAsWritten` is proved with a bijection between the zones stored and the
enabled elements read (`Stored`), which storing extends and sorting permutes;
counting along it gives the number of zones and their order.
`TypeOK` follows from `SInv` and `Bounded`, the types of what the files do not
touch. `FirstServer` picks the first nameserver of a file by its place, not with
`SelectSeq`, so that it need not be reasoned about by induction over the lines.

In `Rfc1035_proofs`, for any records, types, parameters and pointers back:

* `TypeCorrect` (`TypeOK`: no cell outside the buffers is read or written) and
  `NoneUnjudged` (`NothingUnjudged`), for answers damaged in any of the ways of
  `Wire`. `NoneUnjudged` says nothing of the sections behind the answers of a
  message that is passed on as it came.
* `WholePasses`, `PointersLead`, `RecordsFollow`, `HintsGo`, `CutsAreDue`:
  `WholeIsPassedOn`, `NamesKept`, `StaysFramed`, `OnlyHintsGo`,
  `CutAtAnotherType`, which speak of answers that arrive as they were built.

None of these is inductive, because the code looks at one cell at a time and what
makes it right is the shape of all that is ahead. The invariant has five layers:

* `BInv` is that shape: records without a gap (`Chained`), each cell the owner, the
  fields or the data of one record (`Placed`), pointers that lead back to a label
  (`PointsBack`), parameters that end with their record and are followed by another
  or by its end (`ParamsPlaced`). Damage changes one length, or cuts
  (`DamageIsSmall`), so that `TInv`, which adds `TypeOK` and what is set in which
  phase, is inductive for damaged answers too. What stands behind the answer records
  (`Sections`) is nothing but owners, fields and values.
* `Reads` follows `ParseResponseA`: it is at the beginning of the record it should
  be at, and all addresses of answer records before it (`Answered`) are collected. A record that claims a cell too
  much is the last one, and what it claims is a stub, at which the parsing stops; a parameter that
  claims one too much is refused, because its record does not.
* `Confined`: a copy, of a damaged answer too, takes its cells from the answer
  records, or the stub behind the last one, in which no address ends.
* `Understood`: what is as it was built (`AsBuilt`) gets through, whatever follows.
* `Whole`, of the copying: each cell behind is in the copy, once and in order, or had
  to go (`Accounted`); the sums say where each has gone and how far the next will
  move (`Shifts`); the records done can be walked (`Framed`) and are counted.
  A pointer is then right because its label lies behind, is in no parameter, and is
  where the sums say. The steps are reduced first to what they do to an
  answer that is as it was built (`RecordStep`, `TargetStep`, `ParamStep`), where
  giving up (`Refuse`) is shown to be impossible, and then to cells appended
  (`GrownKept`) or left out (`LeftOutKept`).

TLC checked the parts of that invariant on the instance of `rewrite` before they
were proved.

Assumptions are only those named in the modules (`PolicyAssumption`,
`EnvironmentAssumption`, `NoValueAssumption`, `NoPromiseAssumption`,
`LoopAssumption`, `ListAssumption`, `QueueAssumption`, `ConfigAssumption`,
`WatchAssumption`, `WireAssumption`), which say what the constants are and that "no item" and the
like are not items, and the conditions on `Env` above.

Two of the proofs failed first, and showed that a model was wrong:

* `Standing`, of the refinement mapping, was a `CASE` with two guards true of a
  zone that is awaited and has no answer yet, so it did not say which.
* A link that is led away and back leaves a zone with another content of its file
  than it has read, and no event; `missed` did not count the way back. TLC finds
  that with three changes, `watch` has two.

Checked by TLC only are the liveness properties (`EveryQueryFinishes`, `BatchEnds`,
`EveryReplyLeaves`, `ChangeArrives`, `InterruptStops`), which are out of the prover's
reach.

## What is not modelled

* The values of options, ports and log files, the text of JSON and of resolv.conf,
  logging: they decide nothing but what the models take as given.
* In the loop: the branch for a descriptor the `ConnectionManager` does not know
  (`BatchEventsValid` shows it is not reached), and an error on the listening socket
  or in `epoll_wait` (the process ends, as `End` of `Startup` has it).
* Single bytes of messages (see the bounds), and the keys that the value of a
  `mandatory` parameter names. An upstream that answers what was not asked is
  not modelled either: every answer belongs to a query that reached the
  upstream.
* cJSON, which is third-party code, and the wrappers of system calls in `Util`,
  `epoll_util`, `SLog` and `CxxRuntime`.

## Plan

Still worth doing: the lists and the judgement composed, `Judging` counting
addresses that `IPList` has looked up, instead of verdicts; and `ZonePolicy` as an
abstraction of `Rfc1035`, by a refinement mapping.
