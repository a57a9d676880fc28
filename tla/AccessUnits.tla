----------------------------- MODULE AccessUnits -----------------------------
(***************************************************************************)
(* ReaderSampleProvider.NextSample (readersampleprovider.go) for H.264 and *)
(* H.265 streams: NAL units are read one by one, SEI units are kept back   *)
(* for the metadata they carry, and the units of one H.265 picture are put *)
(* together into a sample, which ends at the unit that starts the next.    *)
(*                                                                         *)
(* A NAL unit is its place in the stream and its kind: "first" and "more"  *)
(* are the slices of a picture, "param" a parameter set, "prefix" and      *)
(* "suffix" are SEI, "other" is any other unit, such as a delimiter.       *)
(***************************************************************************)
EXTENDS Naturals, Sequences, SequencesExt

CONSTANTS
  Codecs,                 \* "H264" and "H265", or one of them
  h265SingleSliceFlush,
  MaxUnits                \* bound: NAL units of a stream

UnitsAssumption ==
  /\ Codecs \subseteq {"H264", "H265"} /\ h265SingleSliceFlush \in BOOLEAN /\ MaxUnits \in Nat

VARIABLES
  codec,    \* the codec of the stream
  stream,   \* the kinds of the units read so far
  pending,  \* h265PendingNAL: the place of a unit read before, or 0
  metadata, \* pendingFrameMetadata: the place of its SEI, or 0
  sample,   \* the sample being put together, and whether it has a slice
  out,      \* the samples returned
  ended     \* "no", "eof" was met, or "yes": EOF or an error was returned

vars == <<codec, stream, pending, metadata, sample, out, ended>>

Slices == {"first", "more"}
Kinds == Slices \cup {"param", "prefix", "suffix", "other"}
Empty == [data |-> <<>>, slice |-> FALSE]

TypeOK ==
  /\ codec \in Codecs
  /\ stream \in Seq(Kinds) /\ {pending, metadata} \subseteq 0 .. Len(stream)
  /\ sample.data \in Seq(1 .. Len(stream)) /\ sample.slice \in BOOLEAN /\ ended \in {"no", "eof", "yes"}

Init ==
  /\ codec \in Codecs /\ stream = <<>> /\ pending = 0 /\ metadata = 0
  /\ sample = Empty /\ out = <<>> /\ ended = "no"

-----------------------------------------------------------------------------
\* The picture goes on with slices of its own only.
WellFormed(kind) ==
  kind = "more" => stream # <<>> /\ stream[Len(stream)] \in Slices

\* The metadata kept is given to the first sample with a slice.
Return(s, slice, meta) ==
  /\ out' = Append(out, [data |-> s, frame |-> slice, meta |-> IF slice THEN meta ELSE 0])
  /\ sample' = Empty

\* Mutant: the metadata stays for the next picture.
Metadata_Stays(slice, meta) == meta

Metadata(slice, meta) == IF slice THEN 0 ELSE meta

Meta(n, kind) == IF kind = "prefix" THEN n ELSE metadata

NextH264(n, kind) ==
  /\ pending' = 0
  /\ metadata' = Metadata(kind \in Slices, Meta(n, kind))
  /\ IF kind = "prefix" \/ kind = "suffix"
     THEN Return(<<>>, FALSE, 0)
     ELSE Return(<<n>>, kind \in Slices, metadata)

\* Mutant: every slice begins a picture.
Begins_Always(kind) == kind # "suffix"

\* The unit starts the next access unit.
Begins(kind) == kind \notin {"more", "suffix"}

\* Mutant: the unit that ends a picture is dropped.
Kept_Not(n) == 0

Kept(n) == n

\* The unit ends the picture and is kept for the next call.
Ends(n) ==
  /\ Return(sample.data, TRUE, metadata)
  /\ pending' = Kept(n) /\ metadata' = Metadata(TRUE, metadata)

SEI(n, kind) ==
  /\ pending' = 0
  /\ metadata' = Meta(n, kind)
  /\ IF sample = Empty THEN Return(<<>>, FALSE, 0) ELSE UNCHANGED <<sample, out>>

Unit(n, kind) ==
  LET data == Append(sample.data, n) IN
  /\ pending' = 0
  /\ IF kind = "param" \/ (kind \in Slices /\ ~h265SingleSliceFlush)
     THEN /\ sample' = [data |-> data, slice |-> sample.slice \/ kind \in Slices]
          /\ UNCHANGED <<out, metadata>>
     ELSE /\ Return(data, kind \in Slices, metadata)
          /\ metadata' = Metadata(kind \in Slices, metadata)

NextH265(n, kind) ==
  IF sample.slice /\ Begins(kind) THEN Ends(n)
  ELSE IF sample.slice /\ kind = "suffix"
  THEN pending' = 0 /\ UNCHANGED <<sample, out, metadata>>
  ELSE IF kind \in {"prefix", "suffix"} THEN SEI(n, kind)
  ELSE Unit(n, kind)

Process(n, kind) == IF codec = "H264" THEN NextH264(n, kind) ELSE NextH265(n, kind)

\* nextH265NAL.
Pending ==
  /\ pending # 0 /\ ended = "no"
  /\ Process(pending, stream[pending])
  /\ UNCHANGED <<codec, stream, ended>>

Read(kind) ==
  /\ pending = 0 /\ ended = "no" /\ Len(stream) < MaxUnits /\ WellFormed(kind)
  /\ stream' = Append(stream, kind)
  /\ Process(Len(stream) + 1, kind)
  /\ UNCHANGED <<codec, ended>>

\* At the end of the stream the last picture is returned; the next call ends.
EOF ==
  /\ pending = 0 /\ ended # "yes"
  /\ IF sample.slice
     THEN Return(sample.data, TRUE, metadata) /\ metadata' = 0 /\ ended' = "eof"
     ELSE ended' = "yes" /\ sample' = Empty /\ UNCHANGED <<out, metadata>>
  /\ UNCHANGED <<codec, stream, pending>>

\* An error of the reader; a picture begun is dropped.
Fails ==
  /\ pending = 0 /\ ended = "no"
  /\ ended' = "yes" /\ sample' = Empty
  /\ UNCHANGED <<codec, stream, pending, metadata, out>>

Next == Pending \/ EOF \/ Fails \/ \E kind \in Kinds : Read(kind)

Spec == Init /\ [][Next]_vars

-----------------------------------------------------------------------------
Data == FlattenSeq([i \in DOMAIN out |-> out[i].data]) \o sample.data
Units == SelectSeq([n \in DOMAIN stream |-> n],
                   LAMBDA n : stream[n] \notin {"prefix", "suffix"})

\* Until the stream ends, every unit but SEI was returned once and in order,
\* is in the sample being put together, or is kept for the next one.
NothingLost ==
  ended # "yes" => Data \o (IF pending # 0 /\ stream[pending] # "prefix" THEN <<pending>> ELSE <<>>) = Units

SliceKinds(s) == SelectSeq([i \in DOMAIN s.data |-> stream[s.data[i]]], LAMBDA k : k \in Slices)

\* An H.265 sample with a duration is one whole picture: it begins with a first
\* slice, and holds the slices that follow it and no other.
WholePictures ==
  codec = "H265" => \A i \in DOMAIN out : out[i].frame =>
    LET kinds == SliceKinds(out[i])
        last == out[i].data[Len(out[i].data)]
    IN /\ kinds[1] = "first" /\ \A j \in 2 .. Len(kinds) : kinds[j] = "more"
       /\ last < Len(stream) => stream[last + 1] # "more"

\* The metadata a picture carries is that of the last SEI between the picture
\* before it and its first slice.
MetadataFollows ==
  \A i \in DOMAIN out : out[i].frame =>
    LET first == CHOOSE n \in ToSet(out[i].data) :
                   stream[n] \in Slices /\ \A m \in ToSet(out[i].data) : stream[m] \in Slices => n <= m
        seis == {n \in 1 .. first - 1 :
                   stream[n] = "prefix" /\ \A m \in n .. first - 1 : stream[m] \notin Slices}
    IN out[i].meta = IF seis = {} THEN 0 ELSE CHOOSE n \in seis : \A m \in seis : m <= n
=============================================================================
