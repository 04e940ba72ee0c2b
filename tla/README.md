# AVT110 Tracker Ingest: TLA+ models, checks and proofs

The service (NestJS, Node.js) terminates the raw TCP connections of AVT110 trackers,
cuts the byte streams into frames, decodes them, stores what they say in PostgreSQL,
acknowledges them to the device, and publishes domain events that consumers read from an
outbox table over HTTP. A second, independent path does the same for ERM/StarLink trackers
and their text protocol, without acknowledgements. The modules here model both paths from
the first byte to the delivered event.

All source paths below are relative to `src/` of the repository.

## 1. Inventory

### Components

| Component | Source | State it keeps | Operations | Model |
|---|---|---|---|---|
| TrackerFrameSplitter | `tracker/tcp/tracker-frame-splitter.ts` | one byte buffer per connection | `push`, `reset` | `FrameSplitter` |
| TrackerTcpServer | `tracker/tcp/tracker-tcp-server.service.ts` | the closures of each connection: its IMEI, its splitter | handlers of data, timeout, close, error; `handleFrame`, `registerDevice`, the promise chain after `saveReport` | `TrackerIngest` |
| TrackerConnectionRegistryService | `tracker/tcp/tracker-connection-registry.service.ts` | IMEI to socket | `register`, `touch`, `unregister`, `getSocket` | `TrackerIngest` |
| TrackerPersistenceService | `tracker/persistence/tracker-persistence.service.ts` | `tracker_device`, `tracker_report` | `upsertDevice`, `markDeviceConnected`, `markDeviceDisconnected`, `saveReport` | `TrackerIngest` |
| TrackerParserService | `tracker/parser/tracker-parser.service.ts`, `utils/buffer-cursor.ts` | none between frames; a cursor within one | `parseFrame` | `ReportDecoder`, `PeoFenceList` |
| TrackerEventPublisherService | `tracker/publishing/tracker-event-publisher.service.ts` | an SNS client | `dispatch`: outbox and SNS | the outbox half in `EventOutbox` |
| TrackerEventOutboxService | `tracker/events/tracker-event-outbox.service.ts` | `tracker_event` | `record`, `findUnread`, `markDelivered` | `EventOutbox` |
| TrackerController | `tracker/tracker.controller.ts` | none | GET endpoints; `GET events/unread` changes state | `EventOutbox` |
| Binary codecs | `tracker/parser/utils/binary-codec.util.ts` | none | pure conversions | not modelled |
| StarlinkLineSplitter | `starlink/tcp/starlink-line-splitter.ts` | one text buffer per connection | `push`, `reset` | `LineSplitter` |
| StarlinkParserService | `starlink/parser` | none | `parseFrame` | `StarlinkParser`; with the splitter in `StarlinkInput` |
| StarlinkTcpServer | `starlink/tcp/starlink-tcp-server.service.ts` | the closures of each connection: its device id, its splitter | handlers of data, timeout, close, error; `handleLine`, `handleReport` | `StarlinkIngest` |
| StarlinkConnectionRegistryService | `starlink/tcp/starlink-connection-registry.service.ts` | device id to socket | `register`, `touch`, `unregister` | `StarlinkIngest` |
| StarlinkPersistenceService | `starlink/persistence/starlink-persistence.service.ts` | `starlink_device`, `starlink_report` | `upsertDevice`, `markDeviceConnected`, `markDeviceDisconnected`, `saveReport` | `StarlinkIngest` |
| StarlinkController | `starlink/starlink.controller.ts` | none | GET endpoints that only read | not modelled |
| Schema, TypeORM set-up, configuration, bootstrap, scripts | `database`, `config`, `main.ts`, `scripts` | none at run time | none over time | not modelled |

### How they interact

```
 device ==TCP==> splitter.push() -> parser.parseFrame() -> server.handleFrame()
                                                             |-- registry.register/touch
                                                             |-- persistence.mark...   (not awaited)
                                                             |-- persistence.saveReport (not awaited)
                                                             |      .then  REPORT_RECEIVED
                                                             |      .finally +SACK ==TCP==> device
                                                             '-- event emitter -> publisher.dispatch()
                                                                        |-- outbox.record (not awaited)
                                                                        '-- SNS publish   (not awaited)
 consumer ==HTTP==> controller.listUnreadEvents(): findUnread(), then markDelivered()
```

The StarLink path has the same shape with a line splitter, a parser of text lines and no
`+SACK`; its events go to the same publisher and outbox.

Handlers run to completion on Node's one thread, so one handler is one action of the
models. Concurrency comes from what handlers start and do not await: SQL statements on
pooled connections that take effect in any order, fail, or fail towards the caller after
they took effect.

### What is hard, and what makes each component correct

* **Splitter.** TCP cuts the stream anywhere; 0x23 is both the terminator and a legal data
  byte; the Length field cannot be trusted. Correct: the frames handed on are the frames
  that were sent, in every chunking; corrupt input costs bounded memory and never yields
  overlapping frames; the loop ends.
* **Server, registry, persistence.** A device reconnects before its old socket closes;
  frames are retransmitted until acknowledged; statements race, fail and outlive their
  socket; the process crashes. Correct: the registry hands out live sockets of the right
  device; an acknowledged report is stored or its failure was noticed; an event is only
  about a stored report; the foreign key never rejects a report; every report is answered.
* **Outbox.** Two statements per poll with other polls and inserts between; late inserts
  with old times; a page limit; lost answers; crashes. Correct: nothing leaves the unread
  list except into an answer, rows never go back, a later poll returns only news, and every
  recorded event is eventually delivered.
* **Parser.** Fields carry no tags: one misread byte shifts every field after it; blocks
  nest, each with its own error handling; counts come from the wire. Correct: a whole
  report decodes exactly, a damaged one is never decoded silently wrong, parsing ends.
* **StarLink input.** Lines are cut anywhere and may outgrow the buffer; the fields of a line
  have no names, only positions, and may be empty, damaged or unknown. Correct: the lines
  handed on are exactly those that arrived, a message is decoded into what the device means
  by it whatever surrounds it, and nothing is decoded that was not sent.
* **StarLink server and persistence.** As the tracker's; and the snapshot of a device is put
  together column by column from reports that carry different columns, by upserts that may
  pass each other. Correct: nothing known is forgotten, a position is one report's, a column
  shows the last report that carried it, `tcp_connected` is right once nothing is under way.

`PROJECT.json` lists the hazards one by one with their lines and the properties that cover
them.

## 2. The modules and the code

### FrameSplitter

`stream` is what the device sends on one connection: its bytes and, for the properties
only, the segments (frames and noise) the sender put together. `received` counts the bytes
that have arrived; the private `buffer` is the slice from `base` to `received`. A call of
`push()` is `Push(n)`, which appends a chunk of any size, then turns of its loop -
`EmitFrame` for a frame cut off the front, `Resync` for a corrupt head - and `Settle`, which
does the overflow check and returns. `Reset` is `reset()`. `ResolvesAfterColon` is
`resolveFrameLength()`: the declared length if it lands on a terminator, else the first
terminator after the minimum index. Field widths, the window of eight bytes and the two
length bytes are the code's own; `MaxBufferBytes` is the constructor's argument.

### ReportDecoder

One frame, as the splitter delimited it, through `parseFrame()`: the header's length check
(`RejectFrame`, where the code throws and `handleFrame()` catches), the dispatch on the kind
of frame, and for a report the loop over the Data Mask and the loops of the nested blocks
(Event Data, CAN Info 1 to 3, Electric Info, Advanced CAN). A field is a list of reads; one step
`ReadOn` is one read of the cursor, and a value that says how much follows (a length, a
count, a mask) adds its reads to the list. `ReadFails` is `ensure()` throwing into the loop
that made the read, which warns and breaks: the nested loop when inside a block, and the
loop of the report then goes on. `SkipBit` is a bit without payload or without a decoder.
`MobileyeAdasEvents` is `deriveMobileyeAdasEvents()`. What the plain data bytes mean (units,
scaling, times, hex) is left out.

`StartAscii` is `parseAsciiDataZone()`; the turns of the loop of `parsePeoFenceList()` are
`PassField` (not the word PEO), `TakeFence` and `BreakScan` (its `continue`, the end of its body
and its `break`), and `FinishScan` is its end; `scanAt` is `i`. What a record `PEO,...` at a
field is - which numbers it needs, the fence it gives, its end, which follows from the point
numbers it declares - is in `PeoFenceList`, over fields that are what `Number()` makes of them,
an empty one being 0.

`DeviceFrames` says what a device sends, for the theorems, and says it without the parser's
loops: in a report, the fields are the ones the masks announce (`InMasks`), lie one behind the
other in the order of their bits, nested ones after their mask (`InOrder`), and each is spelled
value by value, a length, count or mask saying which values follow (`Spelled`); in a fence
list, the records lie apart and hold as many points as they declare (`IsFenceList`). `Arrived`
and `Degraded` say what the way may have done to them. `DeviceSends` is all this of every frame.

Although `parseFrame()` is described as one that does not throw on bad data, it does throw
on a frame without a head token (which the splitter does not emit) or without room for its
header and trailer; `handleFrame()` is prepared for that,
so the model has it as an outcome (`thrown`) and not as a flaw.

### TrackerIngest

`sock`, `imei` (the closure variable of `handleConnection`), `registry`, the pending mark
statements (`connecting`, `disconnecting`), and one `job` per call of `saveReport()` are the
process; `devices`, `tcpConnected`, `lastReport` and `rows` the database; `reportEvents`,
`announced` and `acked` what consumers and devices have seen. Socket events are `Accept`,
`HandleReportFrame`, `HandleOtherFrame`, `Timeout` (`socket.end()` closes the sending half
only) and `Close`. Both frame actions include `RegisterDevice`, as the code calls
`registerDevice()` for every frame whose header decodes. The two statements of
`saveReport()` are separate steps, each split into taking effect at the database and
returning to the caller, because an error can arrive after the effect. `SaveSucceeds`,
`SaveReturnsNull` and `SaveFails` are the `.then`, `.catch` and `.finally` of the promise
chain; `WriteSack` is in all three, as `.finally` is. A `+SACK` is lost when the sending
half is closed, and may be lost on the network. `Crash` clears the process and keeps the
database.

Histories, for the properties only: `raced` has the devices about whose column `tcpConnected`
two statements that disagree were on their way at once, or one failed, or was lost in a crash,
or whose socket went over to another device, since a statement about them last had the way to
itself; `outlived` those one of whose connections closed while another was live, until they
register anew or the last one closes; `applied` the calls whose upsert took effect, `before[j]`
those of them whose upsert had when the frame of call `j` arrived; `answered` the calls whose
`+SACK` was written.

`ConnectedColumnIsExact`, `OnlineIsExact` and `AnnouncementsAreTrue` speak of all devices and
name these exceptions where they apply: what holds through an overlap of connections is checked
through it, and only the half that the late close breaks (finding 2) is excepted.

### ReportPipeline

What both servers promise for the reports they receive, with connections, devices and
statements left out: a report is received once, stored at most once and only while it is
being handled, and published when its handling ends only if it is stored by then. `TrackerIngest`
implements it with one reception per `saveReport()` call, `StarlinkIngest` with one per
report: `ImplementsPipeline` in either is `Pipeline!Spec` under that mapping.

### EventOutbox

An event is a number, its `occurredAt`. `Dispatch` starts the INSERT without awaiting it;
`Record` and `RecordFails` end it. A request is `Ask`, `FindUnread` (oldest first, up to
`Limit`), `MarkDelivered` (skipped for an empty page, as in the code), then `Answer`,
`AnswerLost` or, at either statement, `StatementFails`. `Crash` ends requests and inserts
under way. `returned`, `lost`, `unrecorded`, `twice` and `before` are history variables for
the properties.

`EventFeed` is what this promises a consumer: events are posted, taken for good, and seen
only after they were taken. `ImplementsFeed` is `Feed!Spec` with the unread rows as the feed,
the delivered ones as taken and the answers that arrived as seen.

### LineSplitter, StarlinkParser, StarlinkInput

`LineSplitter` has the frame of `FrameSplitter`: `Push(n)`, a turn of the loop (`CutLine`),
`Settle` with the overflow check, `Reset`. As the code looks for two bytes only, a stream is
a sequence of symbols: `LF`, `CR`, and texts that are not taken apart further. Lengths and the
buffer's limit count symbols.

`StarlinkParser` is `parseFrame()` as operators: `Matches` is `FRAME_PATTERN` after `trim()`,
`Split` the split at commas (field k is the text after k - 1 of them), `ApplyTag` one field with
the `try` around it, with `Converts` and `Assignment` for what the conversion of the field's tag
throws or sets, and `read[i]` the report after i turns of the loop over the fields. What `parseInt`,
`parseFloat` and the time and coordinate conversions make of a text are the partial functions
`IntIn`, `FloatIn`, `TimeIn` and `CoordinateIn`: a text outside `IntIn` (for the tags of
`FloatTags`: outside `FloatIn`) throws, `.5` is in the second only, a text such as `1x` is in
both as 1, and one outside `TimeIn` is null without a warning, as in the code.

`StarlinkInput` puts the two together: the data handler passes every line of `push()` to
`handleLine()`, and `Decoded` is what comes out. `Meant` says, from the fields a device filled
and without splitting or reading in turn, what a message means: every entry is what the last
readable field that speaks of it says.

`StarlinkLines` says which symbols are a message and what a device writes (`DeviceWrites`):
every message is there and ends its line, and nothing else that ends a line passes for one.

### StarlinkIngest

As `TrackerIngest`, without acknowledgements and retransmissions: `phase[r]` is where the one
call of `saveReport()` for report `r` stands. The snapshot is kept by column: `Carries[r]` is
the set of columns report `r` has a value for, and `ApplyUpsert` patches these and no others.
`latest` (what the snapshot would show if reports were saved one by one), `mixed` (devices of
which two upserts were on their way at once, or one failed), `raced` and `outlived` are histories.

In both ingest modules a statement that fails towards its caller has taken effect by then, or
never does. What a broken connection leaves running in the database after the caller gave up
on it is not modelled.

### MC modules and how the models meet

`MCStarlinkInput` builds lines from fields, noise and damage, `MCStarlinkIngest` names sockets
and what the reports carry. `MCFrameSplitter` builds byte streams from frames and noise, `MCReportDecoder` builds
reports field by field and cuts them at every length, `MCTrackerIngest` names sockets,
devices and who speaks on which socket, `MCEventOutbox` names requests. The models meet at
these values: what `FrameSplitter` emits is what `ReportDecoder` takes (cut reports are what
the fallback of `resolveFrameLength()` produces when a data byte is 0x23), whether a report
decodes is the constant `Undecodable` of `TrackerIngest`, and the events `TrackerIngest`
announces are what `EventOutbox` records. On the StarLink side, each element of `Decoded` whose
`report` is not `Null` is one `HandleReport` of `StarlinkIngest`, each other one a
`HandleOther`; a tag in `DOMAIN report.payload` is a column in `Carries`.

## 3. The runs

| Run | Specification | What it shows | Bounds |
|---|---|---|---|
| `splitter` | FairSpec | `ExactlyTheArrivedFrames`: on recoverable streams, in every chunking, the frames handed on are those whose last byte arrived. On all: `MemoryBounded`, `FramesWellCut`, `PushReturns`. | every stream of one or two of six recoverable parts, and noise between two that need the fallback; corrupt ones of noise, lying lengths and stray terminators; a buffer of the longest recoverable incomplete frame, which the corrupt ones outgrow; one `reset()` |
| `splitter_hash_in_data` | Spec | Violation: finding 1 | two honest frames with 0x23 in data zone or serial number |
| `decoder` | FairSpec | `WholeReportDecoded`, `NeverSilentlyWrong`, `WholeFenceListDecoded`, `FencesAreTheDevices`, `ParseEnds` | reports of up to three of sixteen pieces whole, of up to two cut at every length; lists of up to two fences of none to two points, whole, cut in or after every field, damaged in every field; other kinds |
| `decoder_nested_cut` | Spec | Violation: finding 4 | reports of up to two pieces, cut |
| `decoder_cut_fence` | Spec | Violation: finding 5 | lists of up to two fences, cut in or after every field |
| `ingest` | Spec | Registry, announcements, foreign key, acknowledgement and event properties; `EveryReportIsAnswered`, `ConnectedColumnIsExact`, `SnapshotNeverGoesBack`; `ImplementsPipeline` | one device, two overlapping connections, three reports (one undecodable), two calls of `saveReport()`, one crash |
| `ingest_reconnect` | Spec | Violation: finding 2 | two connections of a device |
| `outbox` | FairSpec | News only, `EveryEventIsAccountedFor`, every record delivered; `ImplementsFeed` | three events, two requests at a time, limit two, one crash |
| `outbox_two_polls` | Spec | Violation: finding 3 | one event, two requests |
| `starlink_input` | Spec | `LinesAreExact`, `MemoryBounded`; `EveryMessageIsDecoded`, `OnlySentIsDecoded` | 288 messages with every combination of good, empty, damaged and unknown fields, alone; streams of three lines of messages, blank, truncated, overlong lines, noise and rests of messages; a buffer of 22 symbols; one `reset()`; every chunking |
| `starlink_bad_field` | Spec | Violation: finding 6 | the same |
| `starlink` | Spec | `OnlineIsExact`, `ConnectedColumnIsExact`, `PositionIsOneReports`, `SnapshotIsLatest`, `NothingKnownIsForgotten`; `ImplementsPipeline` | one device, two overlapping connections, two reports with a position and one with half of one, one crash |

Deadlock checking is off where the system really stops: a stream that has been sent, a frame
that has been parsed, connections that are all closed. The outbox never stops, a consumer can always ask.

**Why the bounds are enough.** The splitter decides by comparing positions within one frame
and the bytes just after it; one frame, one predecessor and noise between make every
combination of "where the chunk ends" and "what precedes". The streams include a head token
of two bytes, of five, an IMEI and a time with 0x23, a Length that is too large and one that
is too small, the shortest frame without fixed fields, and noise of exactly one search
window. The proofs (section 5) remove the bound. In `ingest`, two calls are what is
needed for a retransmission or for upserts that pass each other, two connections for an overlap,
and one crash for everything a
restart can meet; the safety part is proved for any number. Sockets are alike, and so are the
calls: every property there speaks of one state or one step, so that symmetry is sound. In `outbox`, three events with a
limit of two fill a page and leave one over, and two requests are what is needed to race.
In `decoder`, three pieces put a field before and after every nested block; cutting needs one
block and what follows it. Two fences put each kind before and after each other. Longer reports
and lists only repeat the step from one field to the next: the safety properties are proved
for every length.
In `starlink_input` a message alone meets every outcome of every field beside every other;
three lines put a message after each kind of disturbance and before another; all its properties
are proved for every stream. In `starlink` two reports are needed for upserts that pass
each other and a third for a position in halves; sockets are alike, and so are the two
reports with a position, and every property there speaks of one state or one step, so that
symmetry is sound. It has one device: a socket on which the device changes is covered by the
theorems only.

`MaxResets`, `MaxCrashes`, `MaxEvents`, `Jobs`, `Sockets` and, for StarLink, `Reports` bound what would otherwise go
on for ever; nothing else is cut off.

**Fairness and why the code justifies it.**
`FrameSplitter`: weak fairness of a loop turn - `push()` is synchronous.
`ReportDecoder`: weak fairness of the next step - `parseFrame()` is synchronous; that it
ends is a property, as a loop that takes steps without end is not excluded by fairness.
`TrackerIngest`: none. That a call of `saveReport()` ends is up to the driver, which settles every
statement, with a result or an error; what the server makes of it is `EveryReportIsAnswered`,
which says of every call that is over that it was answered.
`EventOutbox`: a consumer keeps polling (weak fairness of `Ask`) and every request ends; the
two statements have strong fairness, because a statement may fail and the request then ends
with an error, so they are enabled again and again and not continuously: the database does
not fail each and every time. Recording has no fairness, an INSERT may take for ever; the
property is about recorded rows.
The StarLink modules state no fairness: the server answers nothing and retries nothing, so
that nothing is promised to happen; a stream that stops is a device that stops.

## 4. Findings

Each is a run that TLC ends with a counterexample.

1. **An honest frame is cut at a 0x23 of its own** (`splitter_hash_in_data`).
   `tracker-frame-splitter.ts:39` says a correct Length is used "with zero risk from stray
   0x23 bytes inside the data zone". That holds only when the whole frame is in the buffer:
   while its end is missing, the fallback accepts the first 0x23 after the minimum index.
2. **The late close of a replaced connection takes the device offline**
   (`ingest_reconnect`). `close` unregisters by IMEI without comparing sockets; the registry
   promises an answer to "is this device online right now". The StarLink server has the same
   handler. `OnlineIsExact`, `AnnouncementsAreTrue` and `ConnectedColumnIsExact` of both servers
   name a device after such a close (`outlived`) as their exception.
3. **Two overlapping polls return the same event** (`outbox_two_polls`);
   `tracker.controller.ts:134-136` says a subsequent call returns only what is new.
4. **After a truncated nested block the parser guesses on** (`decoder_nested_cut`). The inner
   loop catches the failed read, and the loop of the report decodes the next fields from the
   leftover bytes, which lines 475-476 say must not happen. `NeverSilentlyWrong` does hold: a
   warning is always left behind.
5. **A fence cut in its last number is reported** (`decoder_cut_fence`). A test
   (`tracker-parser.service.spec.ts:359-360`) says of a fence cut short that it is "dropped rather
   than reported with fabricated/incomplete data". Cut within its last number, or just before it,
   it is reported with the first digits, or 0, and no warning. `FencesAreTheDevices` says that a
   wrong number gets in in no other way.
6. **A bad time is no warning** (`starlink_bad_field`). The comment on `StarlinkParserService`
   says any field that is not understood "degrades to a `warnings` entry", and
   `starlink-codec.util.ts:1-7` that a bad value surfaces as a decode warning "like every other
   malformed field". A time that is not twelve digits becomes null without one; and `12x` is
   taken for 12, which the model has in `IntIn`.

Disagreements that the models have but that have no run of their own:

* `tracker-report.entity.ts:15-18` promises one row per `+RPT`/`-RPT` frame. A report whose data
  zone does not decode is acknowledged and leaves no row (`SaveReturnsNull`);
  `AckedIsStoredOrFailed` leaves out such reports for that reason.
* A Length that counts the whole frame, which lines 25-29 of the splitter describe as one the
  fallback is there to survive, merges two frames when the byte it lands on in the next frame
  is 0x23. `CleanFrame` excludes it in its last conjunct.
* `tracker-tcp-server.service.ts:104` and `starlink-tcp-server.service.ts:98` say a socket
  belongs to exactly one device. Nothing enforces it: a header with another IMEI registers the
  socket again and leaves the first device registered after the socket closed. It is the
  assumption `OneImeiPerSocket` (`OneDevicePerSocket`) of the theorems about the registry.
* The warning for truncated coordinates of a fence says "only the fully received points are
  included", and the whole fence is dropped.
* The comment on `StarlinkParserService` says "never throw out of `parseFrame`": it throws on
  every line that does not match the pattern, and `handleLine()` discards the line.

Contradicting no statement of the repository, but worth knowing: statements about
`tcp_connected` that pass each other, and a crash, leave the column wrong until the device is
next heard of (`ConnectedColumnIsExact` says only then); of two upserts on their way together
either may be the last, and `-RPT` history counts as new when it arrives (`SnapshotNeverGoesBack`
says no older one comes back); an INSERT that fails leaves a snapshot that shows a report without a row; a lost
`+SACK` makes a second row of the same report; and an event whose INSERT fails or is under way
at a crash is never listed (`EveryEventIsAccountedFor` says only those).

## 5. What is proved

The theorems hold for every value of the constants, under the assumptions named in the
modules (typing of the constants only) and those stated in the theorem.

**FrameSplitter_proofs.** `CutInv` - types, memory bound, frames well cut - is inductive for
arbitrary streams, buffer sizes and chunkings: `TypeCorrect`, `MemoryIsBounded`,
`FramesAreWellCut`. `CleanSplit` is the main result: `ExactlyTheArrivedFrames` holds always, on
every `CleanStream` as long as `reset()` is not called. That property speaks only of
states between calls, so it is not inductive. `CleanInv` strengthens it on such a stream: `base` is always the
start of some segment `k` (or the end of the stream), and the frames handed on are exactly
those among the segments before `k`. `FrameParts` and `OneColon` show that the resolver's
choices at a segment's start are determined, `EmitExact` and `ResyncExact` that a turn of
the loop removes exactly segment `k`, and `LoopGoesOn` that the loop cannot stop with a
complete segment in the buffer - from which the property follows at `Settle`. The overflow
check never fires because an incomplete segment is at most `MaxBufferBytes` long.
`CleanStream` is where finding 1 and the total Length (section 4) are excluded: no 0x23 where the fallback looks, and
no 0x23 where a dishonest Length lands.

**TrackerIngest_proofs.** `SaveInv` is inductive: a call past its upsert has a device row,
rows have device rows (devices are never deleted), a call whose INSERT took effect has a
row, an `empty` call is of an undecodable report. From it: `ForeignKeyHolds`,
`PublishedStored` and `AckedStored`. `AnsweredReports` adds that the connection a call will answer
on was accepted, so that once it stops sending it never begins again. `SnapshotAdvances` adds that a
call in `applied` is past its upsert and that only such calls are in `before` of any.
`TrackerImplementsPipeline` is the refinement: each action is mapped to an action of
`ReportPipeline` or to a stutter, and `SaveInv` supplies what the abstract guards ask for (a
call about to be published has its row, one about to insert has none). `RegInv` is inductive where a socket carries frames of one
IMEI (`OneImeiPerSocket`, see section 4): a socket's IMEI is one it speaks for, and the three
properties about the registry hold. From it: `RegistryIsLive`, `OnlineExact` and `AnnouncedExact`, for every device and
through overlapping connections; the exception `outlived` is the one finding 2 shows to be needed.
`ColumnExact` needs neither the registry's invariant nor `OneImeiPerSocket`; it has the exceptions
`raced` (a failure, a crash, statements that passed each other, a socket that went over to another
device) and `outlived`: `Told` relates, for
a device that has not raced, the statements on their way and the column to its connection -
while it is connected nothing on the way says otherwise, and either something says so or the
column does already.

**EventOutbox_proofs.** `IInv` adds to the properties that an event being recorded is still
absent from the table, that what a request found is recorded, and marked once the request
has marked it, and that what had been returned when a request was made has been returned.
From it: `LaterRequests`, `NoSilentLoss`, `TypeCorrect`;
`RowsAdvance` as an action property; and the refinement `OutboxImplementsFeed`.

**LineSplitter_proofs.** `IInv` holds on every stream and in every chunking: the buffer begins
where a line begins, holds no newline between calls, and the lines handed on are those that
end in what has left it. From it: `EveryLineOnce`, `BufferBounded`, `TypeCorrect`, and
`OnlyOverlongLinesAreCut`, by which a line that fits the buffer is never lost. `LinesInSame` and
`LinesInNext` say how the lines of a stream change with what has left the buffer: a cut changes
none that ended before it, a newline adds its own.

**StarlinkIngest_proofs.** `SnapInv` adds to the types that a column shows a report that
carried it, and that a device that is not mixed has at most one upsert on its way and a
snapshot that is the latest but for that one. From it: `PositionWhole`, `SnapshotLatest`;
`NothingForgotten` as an action property. `StarlinkImplementsPipeline` and `ColumnExact` follow
the tracker's arguments, and so does `OnlineExact`, under `OneDevicePerSocket`.

**ReportDecoder_proofs.** `TypeCorrect` needs no assumption on the frames: whatever bytes
arrive, the cursor stays inside the data zone and what is still to be read are reads.
`WholeDecoded` and `NeverWrongSilently` are about the frames of `DeviceSends`, of any number of
fields and any length, cut anywhere. `ReportInv` is inductive. Its heart is `InStep`: as long as
no loop has warned, the loops stand at a place of the report that was sent (`Aligned`) - the
bits ahead of them are exactly those whose fields lie ahead, the cursor is where the first of
these begins, what was decoded is what lies behind, and within a field the list of reads is the
one that is left at one of its marks. The lemmas follow the loops: from a bit to its field, from
one mark to the next, from a nested mask into its block and out of it. Once a loop has warned
nothing is claimed but the warning, which is `NeverSilentlyWrong`; `Unwarned` says that a whole
report of known fields never gets there, as every value the device wrote is in the zone. `AdasRead`
ties the derived warnings of the camera to the fields of its block. `ParseAdvances` is what stands
behind `ParseEnds`: on every frame, every step uses up bytes, or bits of a mask, or a nested block,
or reads, in a lexicographic order without infinite descent. It needs `MaskIsOneRead`, as a read
of no width gets on only if it opens no block.

**FenceScan_proofs.** Extends the former, for the scan of the fence list. All rests on
`RecordDecoded`: a record that parses ends where the device ended it, and is the fence that
was sent - but that the last number of the text may be its first digits, or 0 (`LastField`). `ScanInv`, for every text at all,
counts: without a warning there are as many fences as words PEO behind the scan. `ListInv`
relates the fences found to the first ones of the device's list, and `scanAt` to the records:
never inside one. From it: `WholeListDecoded`, `ListNeverInvented`.

**StarlinkInput_proofs.** Extends the proofs of the splitter. `SplitOf`: the split gives back
the fields the device put commas between, empty ones included, by counting commas. `TurnOfField`
and `ParsedIsMeant`: after i turns the loop has what the first i fields mean. This is an
induction over the fields; the library's induction theorem cannot be instantiated here (it
takes an operator), so it is done by the least i for which it fails (`LeastNat`). `MessageLine`
and `MatchedLine` relate the lines of a stream to the messages in it. With the splitter's
`Invariant`, `EveryLineOnce` and `OnlyOverlongLinesAreCut` they give `EveryMessageArrives` and
`NothingElseArrives`, for every stream of `DeviceWrites`, every format of tags, every buffer
and every chunking.

**The hypotheses are met by real instances.** `MCFrameSplitter` has TLC evaluate `CleanStream`
on its streams, `MCStarlinkInput` has it evaluate `DeviceWrites`. `DeviceSends` quantifies over
all sequences of bytes, which TLC cannot enumerate; `MCReportDecoder` gives the witnesses - the
zone a report was built as and the marks of its fields, the starts of a list's records - and TLC
evaluates `IsReport`, `Arrived`, `IsFenceList`, `Degraded` and `HonestLength` on them, for the
frames the run checks.

**Model-checked only.** The three liveness properties (`PushReturns`, `EveryRecordIsDelivered`,
`ParseEnds`): liveness under fairness and ENABLED are beyond the
prover. Every other property of a run that passes is stated by a theorem. The tables of the
decoder (which bit of which mask has which reads) are the code's; the theorems speak of
a device that uses the same tables, and no proof says that they are those of the manual.

## 6. What is not modelled

* SNS publishing: one attempt of a remote call, errors logged, no state.
* How the head token selects the kind of a frame, and the meaning of plain data bytes.
* Starting and stopping the listener, socket errors without effect on state (an error is
  followed by close), time stamps of the connection metadata, logging.
* Database schema, configuration, bootstrap and the developer's scripts.
* The binary codecs of the tracker, and the arithmetic of StarLink's times and coordinates and
  its tables of event names: conversions of single values without state or order, which unit
  tests reach and nothing modelled depends on.
* The endpoints that only read.
* Statements that take effect after their caller was told they failed (section 2,
  StarlinkIngest).

## 7. What is left

1. What stands behind the other liveness properties and is in the prover's reach, as
   `ParseAdvances` is for `ParseEnds`: that every turn of `push()` shortens the buffer and that no
   step of a request takes it back.
2. That `StarlinkIngest` and `TrackerIngest` refine one abstract server, connections included,
   and not only one pipeline of reports.
3. A composition of `TrackerIngest` with `EventOutbox`, through the events it announces, if the
   state space of two connections and two polls together can be kept checkable.
