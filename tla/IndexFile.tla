----------------------------- MODULE IndexFile -----------------------------
(***************************************************************************)
(* The two formats of a single-file index (fo-core/src/index.rs, version 1,*)
(* and storage_v2.rs, version 2 with compressed postings and a checksum):  *)
(* what is written, and what a reader accepts.  A file is a record of its  *)
(* fields; only the compressed postings are kept as bytes.  Documents and  *)
(* positions count from 0, as they are stored.                             *)
(***************************************************************************)
EXTENDS Alignment

CONSTANTS Radix,        \* values of the payload of a byte (128)
          WordBytes,    \* bytes of the longest number (10)
          LastByte,     \* largest value of its last byte (1)
          WideMax,      \* largest 64-bit number
          NarrowMax,    \* largest 32-bit number
          MaxDocuments, MaxEntries, MaxPostings   \* the safety limits

\* The weight of a byte that k bytes precede.
Power[k \in 0..WordBytes] == IF k = 0 THEN 1 ELSE Radix * Power[k - 1]

ASSUME IndexFileAssumption ==
    /\ Radix \in Nat /\ Radix > 1 /\ WordBytes \in Nat \ {0} /\ LastByte \in Nat
    /\ LastByte < Radix
    /\ WideMax = LastByte * Power[WordBytes - 1] + Power[WordBytes - 1] - 1
    /\ NarrowMax \in 1..WideMax
    /\ MaxDocuments \in 0..NarrowMax /\ MaxEntries \in Nat /\ MaxPostings \in Nat
    /\ WordBytes > 5 => NarrowMax < Power[5]   \* a 32-bit number takes at most five bytes

Sum(numbers) == FoldLeft(LAMBDA s, n : s + n, 0, numbers)
Increasing(s, Key(_)) == \A i \in 1..(Len(s) - 1) : Precedes(Key(s[i]), Key(s[i + 1]))
-----------------------------------------------------------------------------
(* Numbers: little end first, the high part of a byte says whether more    *)
(* bytes follow.                                                           *)

Follow(byte) == byte >= Radix
VarintLength(n) == CHOOSE k \in 1..WordBytes :
    /\ k = WordBytes \/ n < Power[k]
    /\ \A j \in 1..(k - 1) : n >= Power[j]

WriteVarint(n) ==
    [i \in 1..VarintLength(n) |->
        ((n \div Power[i - 1]) % Radix) + (IF i < VarintLength(n) THEN Radix ELSE 0)]

\* Mutation: the last byte may hold more than what is left of a word.
ReadOverlong(bytes, k) ==
    Accepted([number |-> Sum([i \in 1..k |-> (bytes[i] % Radix) * Power[i - 1]]), length |-> k])

\* The number at the head of the bytes, and how many it took.
ReadNumber(bytes, k) ==
    IF k = WordBytes /\ bytes[k] > LastByte THEN Refused
    ELSE Accepted([number |-> Sum([i \in 1..k |-> (bytes[i] % Radix) * Power[i - 1]]),
                   length |-> k])
ReadEnding(bytes, ends) == IF ends = {} THEN Refused ELSE ReadNumber(bytes, Min(ends))
ReadVarint(bytes) ==
    ReadEnding(bytes, {k \in 1..Smaller(Len(bytes), WordBytes) : ~Follow(bytes[k])})
-----------------------------------------------------------------------------
(* Postings: pairs <<document, position>>, each after the first relative   *)
(* to the one before it.                                                   *)

PostingKey(p) == p
DocumentDelta(postings, i) == postings[i][1] - (IF i = 1 THEN 0 ELSE postings[i - 1][1])
PositionCode(postings, i) ==
    IF i = 1 \/ DocumentDelta(postings, i) > 0 THEN postings[i][2]
    ELSE postings[i][2] - postings[i - 1][2]

EncodedLength(postings) ==
    Sum([i \in DOMAIN postings |-> VarintLength(DocumentDelta(postings, i))
                                       + VarintLength(PositionCode(postings, i))])
WriteDeltaPostings(postings) ==
    FlattenSeq([i \in DOMAIN postings |-> WriteVarint(DocumentDelta(postings, i))
                                              \o WriteVarint(PositionCode(postings, i))])

InDocument(posting, documents, q) ==
    /\ posting[1] < Len(documents)
    /\ posting[2] + q =< Len(documents[posting[1] + 1])

\* One posting from the bytes that are left, after those already read.
Unread(read) == [read EXCEPT !.accepted = FALSE]
AddPosting(read, before, posting, rest, documents, q) ==
    IF /\ posting[1] =< NarrowMax /\ posting[2] =< NarrowMax
       /\ read.postings = <<>> \/ Precedes(before, posting)
       /\ InDocument(posting, documents, q)
    THEN [read EXCEPT !.postings = Append(@, posting), !.rest = rest]
    ELSE Unread(read)

ReadPosition(read, before, delta, code, rest, documents, q) ==
    IF ~code.accepted THEN Unread(read)
    ELSE AddPosting(read, before,
             <<before[1] + delta,
               code.value.number + (IF read.postings = <<>> \/ delta > 0 THEN 0 ELSE before[2])>>,
             SubSeq(rest, code.value.length + 1, Len(rest)), documents, q)
ReadAfter(read, before, delta, rest, documents, q) ==
    ReadPosition(read, before, delta, ReadVarint(rest), rest, documents, q)
ReadDocument(read, before, delta, documents, q) ==
    IF ~delta.accepted THEN Unread(read)
    ELSE ReadAfter(read, before, delta.value.number,
                   SubSeq(read.rest, delta.value.length + 1, Len(read.rest)), documents, q)
ReadPosting(read, documents, q) ==
    IF ~read.accepted THEN read
    ELSE ReadDocument(read, IF read.postings = <<>> THEN <<0, 0>> ELSE Last(read.postings),
                      ReadVarint(read.rest), documents, q)

WholePayload(read) ==
    IF read.accepted /\ read.rest = <<>> THEN Accepted(read.postings) ELSE Refused
ReadDeltaPostings(bytes, count, documents, q) ==
    WholePayload(FoldLeft(LAMBDA r, i : ReadPosting(r, documents, q),
                          [accepted |-> TRUE, postings |-> <<>>, rest |-> bytes],
                          CountUp(count)))

ObservedDocuments(postings) ==
    Cardinality({i \in DOMAIN postings : i = 1 \/ postings[i][1] # postings[i - 1][1]})
-----------------------------------------------------------------------------
(* Files.  An index is [config, documents, entries]; a configuration is    *)
(* [q, window, profile].                                                   *)

Config(index) == index.config
StoredDocuments(index) ==
    [i \in DOMAIN index.documents |-> [id |-> i - 1, text |-> index.documents[i]]]

WithinLimits(index) ==
    /\ Len(index.documents) =< MaxDocuments
    /\ Len(index.entries) =< MaxEntries
    /\ \A i \in DOMAIN index.entries : Len(index.entries[i].postings) =< MaxPostings

\* The checksum runs over every byte before it; it is those contents here,
\* and a file that was altered may be given either a matching or another one.
Contents(file) == [file EXCEPT !.checksum = <<>>]

FileV1(index) ==
    [version |-> 1, config |-> index.config, reserved |-> 0,
     documents |-> StoredDocuments(index), entries |-> index.entries,
     checksum |-> <<>>, whole |-> TRUE, trailing |-> FALSE]

EntryV2(entry) ==
    [fingerprint |-> entry.fingerprint, df |-> entry.df, count |-> Len(entry.postings),
     payload |-> WriteDeltaPostings(entry.postings)]

FileV2(index) ==
    LET file == [version |-> 2, config |-> index.config, reserved |-> 0,
                 documents |-> StoredDocuments(index),
                 entries |-> [i \in DOMAIN index.entries |-> EntryV2(index.entries[i])],
                 checksum |-> <<>>, whole |-> TRUE, trailing |-> FALSE]
    IN  [file EXCEPT !.checksum = Contents(file)]

ValidConfig(config) == config.q \in 2..64 /\ config.window \in 1..4096
DocumentsInOrder(file) ==
    /\ Len(file.documents) =< MaxDocuments
    /\ \A i \in DOMAIN file.documents :
        file.documents[i].id = i - 1 /\ Len(file.documents[i].text) =< NarrowMax
Texts(file) == [i \in DOMAIN file.documents |-> file.documents[i].text]
DictionarySorted(entries) == Increasing(entries, LAMBDA e : <<e.fingerprint>>)

PossibleCounts(df, count, documents) ==
    /\ df >= 1 /\ df =< documents /\ df =< count
    /\ count >= 1 /\ count =< MaxPostings

LoadV1(file) ==
    LET sound(e) ==
            /\ PossibleCounts(e.df, Len(e.postings), Len(file.documents))
            /\ \A k \in DOMAIN e.postings : InDocument(e.postings[k], Texts(file), file.config.q)
            /\ Increasing(e.postings, PostingKey)
            /\ ObservedDocuments(e.postings) = e.df
    IN  IF /\ file.version = 1 /\ file.reserved = 0 /\ file.whole /\ ~file.trailing
           /\ ValidConfig(file.config)
           /\ DocumentsInOrder(file) /\ Len(file.entries) =< MaxEntries
           /\ DictionarySorted(file.entries)
           /\ \A i \in DOMAIN file.entries : sound(file.entries[i])
        THEN Accepted([config |-> file.config, documents |-> Texts(file),
                       entries |-> file.entries])
        ELSE Refused

\* At most fifteen encoded bytes for each posting: five for a document and
\* ten for a position.
PossibleLength(e) == Len(e.payload) >= 1 /\ Len(e.payload) =< 15 * e.count

SoundEntry(e, decoded, documents) ==
    /\ PossibleCounts(e.df, e.count, documents)
    /\ PossibleLength(e)
    /\ decoded.accepted
    /\ ObservedDocuments(decoded.value) = e.df
LoadDecoded(file, decoded) ==
    IF /\ file.version = 2 /\ file.reserved = 0 /\ file.whole /\ ~file.trailing
       /\ ValidConfig(file.config)
       /\ DocumentsInOrder(file) /\ Len(file.entries) =< MaxEntries
       /\ DictionarySorted(file.entries)
       /\ \A i \in DOMAIN file.entries :
            SoundEntry(file.entries[i], decoded[i], Len(file.documents))
       /\ file.checksum = Contents(file)
    THEN Accepted([config |-> file.config, documents |-> Texts(file),
                   entries |-> [i \in DOMAIN file.entries |->
                       [fingerprint |-> file.entries[i].fingerprint, df |-> file.entries[i].df,
                        postings |-> decoded[i].value]]])
    ELSE Refused
LoadV2(file) ==
    LoadDecoded(file, [i \in DOMAIN file.entries |->
        ReadDeltaPostings(file.entries[i].payload, file.entries[i].count, Texts(file),
                          file.config.q)])

\* The format is chosen by the first bytes of the file.
LoadAuto(file) ==
    CASE file.version = 1 -> LoadV1(file)
      [] file.version = 2 -> LoadV2(file)
      [] OTHER -> Refused
-----------------------------------------------------------------------------
\* What a search takes for granted of an index: identifiers lead to their
\* documents, lookups may be binary searches, every posting lies inside its
\* document.
SoundIndex(index) ==
    /\ DictionarySorted(index.entries)
    /\ \A i \in DOMAIN index.entries :
        LET e == index.entries[i]
        IN  /\ e.postings # <<>> /\ Increasing(e.postings, PostingKey)
            /\ e.df = Cardinality({e.postings[k][1] : k \in DOMAIN e.postings})
            /\ \A k \in DOMAIN e.postings : InDocument(e.postings[k], index.documents, index.config.q)
=============================================================================
