# A verification model of the MPEG-TS multiplexer and demultiplexer

The library turns elementary stream frames into MPEG transport stream packets
of 188 bytes (`MpegTsMuxer`) and back (`MpegTsDemuxer`). These modules model
what both do with counters, tables, packet layout, threads, buffers, damage and
loss; TLC checks them on small instances and TLAPS proves nearly all of the
safety properties for every instance.

## The system

| Component | State | Operations | Hard parts |
|---|---|---|---|
| `MpegTsMuxer` | counter per stream type, PAT index, mutex | `encode`, `createPcr`, `createNull` | several threads, one callback, stuffing at every size, counters that wrap, table cadence |
| `MpegTsDemuxer::decode` | `mRestData`, dropped-byte count | one call per buffer | packets cut anywhere, resynchronisation after damage |
| `MpegTsDemuxer::parseTsPacket` | PMT PID, PCR PID, frames under construction, counters | one call per packet | lost, repeated and corrupt packets; frames of unknown size; stale fields |
| packet structures, timestamps, CRC | none of their own | encode, decode | bit fields, sizes both sides must agree on, 33-bit values |
| `SimpleBuffer` | bytes, read position | append, prepend, skip, `setData`, read and write integers | a position without a bound, sizes that wrap |
| `main_dmx` | the demultiplexer, file counters, the read buffer | one turn per 188 bytes of `bars.ts`; files from `esOutCallback` | end of file, several ADTS frames in one PES packet |
| `main_mx` | time reference, recording flag, loop counters and offsets of the encoder threads | two encoder threads, a main thread, `tsOutCallback` | variables shared without a lock, late threads, missing files, two loops of different length and rate |
| kissnet, unit tests | | | vendored code, test code |

The multiplexer calls `tsOutCallback` with the mutex held; the receiving side
passes the bytes to `decode`, which cuts them into packets and calls
`parseTsPacket`; this calls `esOutCallback`, `pcrOutCallback` and
`ccErrorCallback`. The two objects share nothing but the byte stream. `main_dmx` reads `bars.ts` and
leaves a directory of files; `main_mx` multiplexes these files again in an
endless loop.

What makes each part correct: the multiplexer must put each frame into exact
packets, all of them, in counter order, whatever threads do, with tables where
receivers need them; `decode` must not lose or repeat a byte of an intact
packet; `parseTsPacket` must hand out all payload once and tell the truth about
it; together they must be a channel of frames. The codecs must bring back every
field, and the number of bytes each side moves by must be the same. `main_dmx`
must cut the stream into its frames and ADTS frames; `main_mx` must keep audio
and video in step over any number of loops and record a prefix of what it sends.
`PROJECT.json` lists the hazards
line by line with the properties that watch them.

## Modules

- `TsPacket`: the packet as a record, its numbers and sizes, the rule of the
  continuity counter. Stream bytes are runs `<<frame, from, len>>`; all lengths
  are real.
- `Muxer`: `mpegts_muxer.cpp`. A thread goes `Call`, `Lock`, then the steps of
  the operation (`Encode` decides on the tables, `CreatePes` writes one packet,
  `PesDone` ends the loop, `CreatePcr`, `CreateNull`), `Callback`, `Unlock`. The
  steps are as fine as another thread could tell if the mutex were missing.
  `wire` is the history of what the callback got.
- `TsFraming`: `decode`, `checkSync` and `mRestData`. A byte is its offset in the
  stream and its class (start of an intact packet, start of a broken or cut one,
  stray 0x47, anything else). `Call` prepends the kept bytes; `SkipByte`,
  `ParsePacket` and `Return` are the branches of the loop.
- `Demuxer`: `parseTsPacket` and everything it calls. One action per kind of
  packet: `ParsePat`, `ParsePmt`, `ParsePes`, `Skip` (counter check only),
  `Ignore`. Each is the whole handler: counter, PCR and frame callbacks included,
  in `events` in the order they are made. Frame data is the list of the packets
  it came in.
- `FrameChannel`: the abstract promise, a queue of frames per PID.
- `Link`: `Muxer` and `Demuxer` joined by the packets in flight, with `Lose` and
  `Repeat`; `received` says which packet of `wire` each arrival is. `ChannelSpec` is the refinement of `FrameChannel`. It extends `Muxer`, whose
  theorems then apply to it, and has the demultiplexer as the instance `D`; its own
  behaviours are `LinkSpec`. `Sent` and `Delivered` list the start packets in `wire` and
  the frames in `events` in the order of their positions.
- `Bits`: words as sets of bit positions, so that 33-bit timestamps and 32-bit
  CRCs are exact in TLC and shifts and masks are set operations in proofs.
- `SimpleBuffer`: `simple_buffer.cpp`, one operator per operation.
- `Codecs`: the layouts of `ts_packet.cpp`, the timestamps and PCRs of
  `common.cpp`, `crc32`. `crcTable` is computed from the polynomial 0x04c11db7; the
  table in `crc.h` is that one. Its reader side takes the bytes and an offset.
- `CodecStream`: one buffer between a writer and a reader of structures: `Write`
  (`append`), `PutBack` (`prepend`), `Patch` (`setData`), `Read`, `SkipOver`, `Clear`.
  What may be written is typed (`WellFormed`): fields have their widths, a PMT
  announces the length of its entries, and `MaxWritten` structures of `MaxBytes`
  bytes do not reach the modulus of the sizes.
- `MuxBytes`: what `createPat`, `createPmt`, `createPes` and `createPcr` write for the
  packets of `Muxer`, down to the moving of headers for stuffing, and what the
  parser reads back (`Seen`): a PCR only on its PID, and nothing of a packet whose
  adaptation field is longer than `parseAdaptationField` allows (`FieldTooLong`). Bytes of a frame are marked with their offset. Times
  are compared as words of 33 bits (`Timed`), since numbers are not read back.
- `BarsDmx`, `MainDmx`, `MainMx`, `Examples`: the directory of files, the two
  programs, and one after the other. `MainDmx` runs `Demuxer` as it is, on packets
  found by the read loop, and its action is one turn of that loop with all
  callbacks. In `MainMx` each thread has its own steps; `MainAdvance` and
  `MainCompensate` are two because both writes to `gTimeReference` can be seen by an
  encoder that starts. `muxOutput` is one step per packet, as the flag may change
  within a buffer. The multiplexer is `sending`, its mutex and the packets to go;
  packet content is `Muxer`'s business.
- `MC...`: instances for TLC. `MuxerProofs`, `TsFramingProofs`, `DemuxerProofs`,
  `LinkProofs`, `LinkLossProofs`, `CodecProofs`, `StreamProofs`, `ExamplesProofs`:
  theorems.

Every module keeps, beside a definition, the `Mut...` variants with which the
properties are known to fail.

## Runs

| Run | Question | Bounds |
|---|---|---|
| `mux_threads` | Do counters, frames and segments survive two threads that encode and send PCR and null packets? Is the mutex given back? Do tables parse, with a CRC that fits, and is the PCR where `readPcr` looks for it? | 2 threads, 2 calls each, frames of 0, 1 and 2 packets |
| `mux_layout` | Is every frame size laid out exactly, in records and in bytes? | one call; sizes 0..580, so 0 to 4 packets with every stuffing size, with and without PCR, random access flag, second timestamp, on and off the PCR PID; times above 2^30, so with bits in both parts of `Bin`; length limit 300 so that both sides of it occur |
| `mux_long` | Do counters wrap and tables repeat? | 45 frames of two packets: counters wrap five times, tables come three times |
| `framing` | Is a byte stream cut into packets whatever the chunks and the damage? | packets of 4 bytes, chunks of 1, 3, 4, 5 and 9 bytes in every order, streams of up to four packets, damage and noise |
| `demux` | Do callbacks say what the packets demand? | any 5 of 9 packets of tables; good tables and then any 4 of 12 packets of two streams |
| `link` | Do both ends together implement `FrameChannel`? | 3 calls, 6 frame shapes, segment tables, frames of known and unknown size |
| `lossy` | Is corruption ever silent? | 3 calls, 2 faults: loss of 1 to 3 packets in a row, or a repetition; frames of two packets and known size, the second packet full, and of three and unknown size |
| `codecs` | Do writer and reader of a buffer agree on every field and size? | 2 structures between two clears; every kind of header and integer with all bits, every other bit or no bit set, empty and longer adaptation fields, tables of no, one and two streams, timestamps with each boundary bit and with bits above the 33 (that no two fields are swapped is proved for every value) |
| `examples` | Are the files the frames of `bars.ts`? Do recording and loops survive threads that are late at any step? | `main_dmx`: every mix of up to 3 frames of 6 kinds; `main_mx`: two longer files, audio files missing in one; video in groups of an I, a P and a B frame in decoding order; loops of 2 audio and 3 video files, a second of 4 ticks, 9 ticks, recording over after one second |
| `null_size`, `pcr_lost`, `unsized_early` | disagreements, see below | |

Packet size is scaled down in `framing` only: `decode` compares positions with
the size and never depends on its value. `MaxPesLength` (0xffff in the code) is
300 or 360 where frames of unknown size are wanted. `PatInterval` is the code's 20 in
`mux_long`. In `examples` the loop counts (1125 and 1200), the PTS step of 1920, the
25 seconds and the frame distances are scaled down; 9 ticks hold two turns of the
main thread, four video frames and so the second loop of both streams, and a
thread that sleeps through any of it. Nothing compares these numbers with
others. `MaxNow`, `MaxWritten`, `MaxCalls`, `MaxArrivals` only end the runs.
Runs stop when callers have made their calls, so none checks for
deadlock; `LockReleased` and `DecodeReturns` say what has to go on.

Fairness: a thread inside the multiplexer keeps running, and one waiting for a
mutex that stays free gets it; a thread inside `decode` keeps running. Callers
owe nothing. Without a callback that never returns this is what a thread
scheduler gives.

### What the violated properties show

- `pcr_lost`: `createPcr` writes an adaptation field of 183 bytes and
  `parseAdaptationField` accepts 182, so out-of-band PCRs never reach
  `pcrOutCallback`.
- `null_size`: `createNull` hands out 4 bytes.
- `unsized_early`: a frame of unknown size whose first packet is header only is
  delivered empty at once; its data follows without timestamps.

Other behaviour the models made plain, all of it visible in the hazards: entries
of a rejected PMT are used with the next one; data that comes without a start
packet, after a loss or after a sized frame is complete, is delivered as a
completed frame without timestamps, so `NoSilentCorruption` has to look at
`ccErrorCallback`, and even that is silent when the first packet heard of a PID is
not a start: there is no counter yet to compare with (`StartFor(k) = 0`); a start
packet received twice delivers its frame twice, the second time after a continuity
error; fields of a start packet without data live on into the next
frame.

## Proofs

`MuxerProofs` (any threads, frames, streams, counts):

- `TypeCorrect`: `Spec => []TypeOK`.
- `PacketsAlwaysFit`: without `createNull`, `Spec => []PacketsFit`. The heart is a
  lemma on `PesPacket`: for each frame, position and kind of adaptation field the
  header, stuffing and data add up to 188. The invariant adds the same for the
  buffer of the call in progress.
- `CcAlwaysContinuous`: with a PCR PID that carries no frames, `Spec =>
  []CcContinuity`. `CcContinuity` speaks of `wire` alone and is not inductive; the
  invariant says that `wire` followed by the buffer of the thread in the mutex is
  continuous, that the counter of a type is the counter of the last packet on its
  PID in that sequence, and that all other buffers are empty. The assumption on
  the PCR PID is needed: `createPcr` always sends counter 0.

They rest on `MuxerAssumption`: at most one PID per stream type and 33 streams.

It goes on with that sequence, `Stream`: `wire` and
what the thread in the mutex has in its buffer. A step of `Encode`, `CreatePes` or
`CreatePcr` appends to it, `Callback` only moves its end into `wire`, and so a
property of sequences that an append keeps is an invariant.

- `FramesAlwaysWhole` (PCR PID as above): `Spec => []FramesWhole`. `Whole` is the
  property of a sequence with some frames still open: each packet goes on where
  the packet of its PID before it ended, a start comes only after the end of a
  frame, and the last packet of a PID ends its frame or belongs to an open one.
  `Stream` is whole with the one frame `createPes` is in (`Open`), `wire` with none.
- `SegmentsAlwaysSelfContained`: `Spec => []SegmentsSelfContained`. `SegmentInv` adds
  that the two packets at the end of `Stream` are the tables while the frame that
  called for them has not started. This is where the mutex is needed.
- `CadenceAlwaysKept`: `Spec => []PatCadence`. `CadenceInv` says what `mCurrentIndex`
  counts: the frames since the last tables in `Stream`, with one about to start.
- `TableBytesAlwaysRight`: `Spec => []TableBytesRight`, and `PesBytesAlwaysRight`: `Spec =>
  []PesBytesRight`, for every packet of every frame, streams, PIDs and times. The first
  is about PAT and PMT, and says of `createPcr` that the bytes hold the clock and that
  the parser drops their packet all the same (`pcr_lost`). A packet of a frame is never
  dropped: it has data, so that at most 182 bytes are left for its field.
  `BuffersBuilt` says where a packet in a buffer is from (`BuiltBy`): from one call of
  `createPat`, `createPmt`, `createPcr` or `createNull`, or from `createPes` for the
  frame of the thread at some position. The rest is about one packet: `PatSeen`,
  `PmtSeen`, `PcrSeen` and `PesPacketSeen` lay its header, adaptation field, PES header
  and timestamps down one after the other, follow what stuffing moves (`MovedUp`)
  and what it puts in the gap, and read each of them where it has come to lie, by the
  round trips of `CodecProofs`. That the CRC fits its section is `CrcChecks`. They need
  that a PES length has 16 bits, which `MuxerAssumption` says of `MaxPesLength`.

The last proof is what found that the cases of `BytesOfPacket` overlapped for tables
and frames on the PID of the PCR, where the case of a PCR packet asked for the PID
alone. TLC takes the first case that holds, so no run showed it. It now asks for a
packet without load as well.

`TsFramingProofs` (any stream, chunks, packet size): positions in range
(`FramingTypeCorrect`), no byte lost, repeated or reordered between calls
(`BytesAlwaysConserved`), losses reported exactly (`LossAlwaysReported`), streams
of intact packets cut exactly (`CleanStreamAlwaysExact`), and intact packets found
after damage (`PacketsAlwaysRecovered`). The invariant states that what was
parsed, the gaps, the dropped bytes and what is still unread are consecutive
pieces of the stream.

`DemuxerProofs` (any set of packets, any order, any number of arrivals):
`DemuxerTypeCorrect`, `Spec => []TypeOK`. `TypeOK` holds more than ranges: the
stream map points into the streams, the data of a frame and its size are empty
together, lengths stay in their 16 bits. It is not inductive: that a packet parsed
as a PMT or as PES data is one follows from where the demuxer has its PIDs from,
so the invariant adds `TablesKnown` (`mPmtId` is named by a PAT that may arrive,
every entry decoded and every stream by a PMT that may). It rests on
`DemuxerAssumption`: packets are typed, and tables and streams do not share PIDs.

The other theorems are all the other safety properties of `Demuxer`. Each of them
compares the callbacks with what the history `arrived` demands, in terms such as
"the first PAT heard" or "the last start before this packet"; most lemmas say
how such a term changes, or does not, when one packet more arrives.

- `CcErrorsAlwaysExact`, from `CountersKept`: the counter kept for a PID is the one
  of the last packet counted on it.
- `PcrsAlwaysExact` and `OnlyAnnouncedAlways`, from `TablesHeard`: `mPmtId` is what the
  first PAT named, streams exist from the first whole PMT on (`TunedAt`), `mPcrPid`
  is what the last good PMT until then named. `PcrsExact` is about packets with a
  field of at most 182 bytes (`Counted`); those of `createPcr` are dropped. `OnlyAnnounced` also needs
  `FramesLate`: a frame under construction only holds packets that came after.
- `PayloadAlwaysConserved`, from `Split`: on each PID the deliveries and then the data
  under construction cut the stored packets into consecutive parts.
- `VerdictsAlwaysRight` and `HeaderAlwaysKept`, from `HeadersInv`: a frame under
  construction bears the header of the last start packet heard unless that packet's
  frame has been delivered, and is not yet full, since it would have been delivered.

`LinkProofs` (any threads, streams, frames and PMT, any number of calls, `MaxFaults = 0`):

- `ChannelImplemented`: `LinkSpec => ChannelSpec`. On each PID the frames encoded after
  the first PMT come out of `esOutCallback` once each, whole and in order. A callback
  of the multiplexer is one `Send` or none, a packet received one `Deliver` or none
  (with a start that ends a frame of unknown size and is a whole frame of known size,
  one `Deliver` of two frames).
- `LittleAlwaysHeldBack`: `LinkSpec => []LittleHeldBack`. With `ChannelImplemented`
  it says that, all packets received, nothing but such a last frame is missing.
- `NoAlarmIsFalse`: `LinkSpec => []NoFalseAlarm`, where `createPcr` keeps to a PID of its
  own (`PcrOutOfBand`), as in `CcAlwaysContinuous`, from which it follows with
  `CountersInv`: the counter kept for a PID is that of the last packet received on it.

The invariant is `LinkInv`. `MuxInv` says what the multiplexer leaves in `wire`: every
packet is one of four kinds with the fields its shape demands (`Made`), packets of a
frame follow each other without any other in between, the first with the PES header
of the frame, and a PMT comes right after a PAT (`Rows`); a callback hands out one start
at most (`StartInv`). The others say what the demultiplexer has made of the first
`nTaken` packets: its tables are those of the packets heard (`TablesInv`); a frame
under construction holds the packets of one frame from its start to the last one
received, and its fields follow from them (`Held`, `Filling`), and if that frame is
complete then only because its size is unknown (`FramesInv`). The statement the
refinement rests on is `InStep`: what has been delivered on a PID, followed by the
frame in hand, is what was sent in the first `nTaken` packets. They rest on
`MuxerAssumption` and `LinkAssumption`: what is encoded is announced, streams are not
announced on the PID of the PMT, and a PES length has 16 bits.

`LinkLossProofs` (as before, over a network that loses and repeats packets, any
number of times):

- `GenuineAlwaysInOrder`: `LinkSpec => []GenuineInOrder`, without any hypothesis.
  `CarriedInv` says that arrivals are packets of `wire` in its order, some of them
  missing or twice (`ReceivedInv`), and that `wire` holds the frames of a thread in the
  order of its calls (`TurnInv`). `OrderInv` then follows each stored packet through the
  frame under construction into the event of its frame.
- `NeverSilentlyCorrupted`: `LinkSpec => []NoSilentCorruption`, and `BrokenOnlyByLoss`:
  `LinkSpec => []BrokenMeansLoss`, both where `createPcr` keeps to a PID of its own.
  Both speak of the runs in which fewer than 16 packets of a PID are lost in a row
  (`FewLost`), and that a run is one is not known before it ends; so the invariant
  `SoundInv` is itself of the form `FewLost => ...`, and each step shows first that what
  was lost until then was few. The argument: two packets of a PID received one after
  the other, whose counters follow, are one after the other in `wire`, by
  `CcContinuity` and since a gap of less than 16 shows (`Uninterrupted`). So as long as
  there was no continuity error since the start packet, a frame under construction
  holds its frame from there to the last packet received (`KnownInv`), and what has
  come out is as good (`VerdictInv`).

TLC refuted the first form of `NoSilentCorruption`, which had no exception for what
is received before any start packet, as soon as the frames of the run had such
packets; the form that is proved is the one TLC agrees with.

`CodecProofs` (every value of every field, any offset in any buffer): each codec
decodes what it encoded, but for the losses the theorems name
(`TsHeaderRoundTrip`, `SectionHeadRoundTrip`, `ElementInfoRoundTrip`, `PmtRoundTrip`,
`AdaptationFieldRoundTrip`, `PesHeaderRoundTrip`); timestamps and PCRs keep their 33
bits (`TimestampRoundTrip`, `PcrRoundTrip`); the integers of `SimpleBuffer` of any
number of bytes are read as written (`IntegerRoundTrip`). The argument is the one of
the code: fields have disjoint positions, so a mask finds the shifted field alone.
The lemmas on `Put` and `Get` say this for one word, the theorems for each byte. The
entries of a PMT are a list: that the decoder stops after as many as were
written is an induction over the entries, from the last one back, of what it finds
from each offset on (`FromOn`), for which the recursive functions behind it
and behind `FlattenSeq` and `FoldSeq` are shown to exist.

- `CrcChecks`: the CRC of any bytes followed by their own CRC is 0. A step of the table
  distributes over exclusive or, since each of the eight divisions it stands for
  does, so four more bytes that are the remainder itself cancel it one after the
  other; `crc32` is a fold, and the function behind it is shown to exist.
- Which bits the word of a number has (`BinBits`) and that a number of 16 bits comes
  back from its word (`NumBin`) are here too, four bits at a time.

`StreamProofs`:

- `AlwaysInStep`: `Spec => []InStep` and `AlwaysDecodedRight`: `Spec => []DecodedRight`,
  for any structures that are well formed and any number of them between two clears.
  `StreamInv` says that the unread bytes are those of the structures not yet read
  (`PendingInv`) and how long the buffer can be (`BufferInv`); a reader is at the
  start of a structure, by the round trips it decodes that one and moves by its size.
  They rest on `StructuresAssumption`.

`ExamplesProofs` (every `bars.ts`, loop length, rate, number of packets and pace of
the threads):

- `RecordingAlwaysPrefix`: `Spec => []RecordingIsPrefix`; the invariant `RecordingInv`
  adds types only.
- `AlwaysRecordsLongEnough`: `Spec => []RecordsLongEnough`. `TimeInv` says that the
  reference is at least a second per turn of the main thread ahead of the start and
  that the thread does not count a turn before its reference has come.
- `LoopsAlwaysInStep`: `Spec => []LoopsInStep` where the timestamps in the files are
  integers (`FilesTyped`), a hypothesis: `main_dmx` prints them from numbers, but picks
  the frames with `SelectSeq`, whose definition is recursive. `LoopInv` ties a thread's
  frame number, loop counter and offset to each other (the offset is the number of
  the loop times the loop's PTS duration), says that an audio thread at the first
  file of a loop has the PTS just before the first, and that `sent` holds frames of
  such threads.
- `DtsAlwaysIncreasing`: `Spec => []DtsIncreasing` where the files are in order
  (`FilesInOrder`): the DTS of the video files increase in a loop, the last one lies less
  than a loop after the first, and the audio of a loop is no longer than its video.
  The claim is about DTS because the encoder `generate_bars.sh` calls makes B frames
  and `main_mx` sends in the order of decoding: the PTS of video go back in every group.
  The first two conditions are facts about `bars.ts`: its groups are closed and have 48
  frames, and a loop is 1200 frames, so that file 1201 begins a group as file 1 does
  and the loop is as long in DTS as `gPtsLoopDuration` is in PTS. The third is one about
  the numbers in the code: 1125 audio frames of 1920 are just the 1200 video frames
  of 1800. `OrderInv` speaks of the DTS a thread will send next (`Coming`): all
  it has sent is below, and with audio it is at most what it would be had no file been
  missing, since files that are missing make the thread slower, never faster.

They rest on `MainMxAssumption`: distances, loop lengths and the second are positive.

Only model-checked are

- `LockReleased` and `DecodeReturns`: liveness under fairness is out of the prover's
  reach;
- `AudioFilesRight`, `VideoFilesRight`: files are picked with `SelectSeq`, of which
  the provers know nothing, from a `bars.ts` of which all would have to be assumed.

## Not modelled

Reads past the end of a malformed packet (a section or PES header that claims
more than there is) end or derail the program and are left out. `Link` takes
every packet in flight to be found by `decode`; `TsFraming` shows when that
holds. Printing of headers (`print`, `LOG`), formatting of the tables for
`streamInfoCallback` and the debug dumps of `SimpleBuffer` are left out, as are the
ES info bytes of a PMT entry, which the encoder never writes. kissnet is vendored:
`main_mx` calls its `send` and ignores the result. The unit tests are test code.

Of the examples: a missing `bars.ts`, with which `main_dmx` loops forever since `eof`
never comes; missing or short timestamp files, with which `main_mx` starts all the
same at PTS 0; a first PTS below 1920, where the PTS of the audio thread wraps and
the step in floating point (main_mx.cpp:128) leaves the range of 64 bits, which is
undefined; `findNal`'s read of one byte past a file that ends in
a start code; ADTS headers cut off at the end of a frame, read past its end, and
an ADTS length of 0, with which the loop of `dmxOutput` writes empty files forever.
