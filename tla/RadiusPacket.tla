----------------------------- MODULE RadiusPacket -----------------------------
(***************************************************************************)
(* RADIUS packets on the wire: the requests that forch/radius_query.py     *)
(* builds and signs, and the responses that forch/radius.py takes apart    *)
(* and validates by packing them again, with the attributes and data types *)
(* of forch/radius_attributes.py and forch/radius_datatypes.py.            *)
(*                                                                         *)
(* A packet is the sequence of bytes after its header: for each attribute  *)
(* value pair (AVP) its type, its length and its data.  The identifiers    *)
(* and request authenticators of the header are those of Authenticator;    *)
(* here every response answers the request whose authenticator is stored.  *)
(* Digests do not collide: two are equal just if the bytes they were made  *)
(* of are, so what is compared is those bytes.                             *)
(***************************************************************************)
EXTENDS Naturals, Sequences, SequencesExt

CONSTANTS
    Byte,           \* the bytes that values are made of
    MaxDataLength,  \* the data of one AVP: 253 bytes in the code, what one byte can count
    DigestLength,   \* the data of a Message-Authenticator: 16 bytes in the code
    HeaderLength,   \* RADIUS_HEADER_LENGTH: 20 bytes in the code
    MaxAvps         \* bound: AVPs in a response

\* The types of AVPs: those of the requests, those read from responses, the one of data
\* type Concat, whose value may take several AVPs, and one that servers send and
\* ATTRIBUTE_TYPES does not have.
NASPort == 5
Class == 25
CallingStationId == 31
EAPMessage == 79
MessageAuthenticator == 80
TunnelPrivateGroupID == 81
Type == {NASPort, Class, CallingStationId, EAPMessage, MessageAuthenticator, TunnelPrivateGroupID}
KnownType == Type \ {Class}

\* The bytes of every digest, and those a Message-Authenticator has while it is computed.
Digest == [i \in 1 .. DigestLength |-> 255]
Zeros == [i \in 1 .. DigestLength |-> 0]

ASSUME BytesAssumption ==
    /\ Byte \subseteq 1 .. 254
    /\ MaxDataLength \in 1 .. 253
    /\ DigestLength \in 1 .. MaxDataLength
    /\ HeaderLength \in Nat
    /\ MaxAvps \in Nat

VARIABLES
    phase,       \* what the program does with the packet
    sent,        \* the attributes that the sender signed
    bytes,       \* the packet
    pos,         \* extract_attributes: the bytes read so far
    attributes,  \*   the attributes read so far, then the RadiusAttributesList
    toConcat,    \*   attributes_to_concat: values of EAP-Messages and their positions
    index,       \*   the position of the last attribute, one more than in the code
    last         \*   last_attribute, or 0

packetVars == <<phase, sent, bytes, pos, attributes, toConcat, index, last>>
loopVars == <<pos, attributes, toConcat, index, last>>

Attribute(t, d) == [type |-> t, data |-> d]
Min2(a, b) == IF a < b THEN a ELSE b

\* Data as the data types of the AVPs of responses accept it (Concat, and is_valid_length
\* of String).
ValidLength(t, d) == t = EAPMessage \/ Len(d) \in 1 .. MaxDataLength

-----------------------------------------------------------------------------
(* Packing. *)

Avp(t, d) == <<t, Len(d) + 2>> \o d

\* The number of AVPs that Concat.pack splits a value into.
Chunks(d) == (Len(d) + MaxDataLength - 1) \div MaxDataLength

\* The bytes of an attribute with its headers (DataType and Concat).
FullLength(a) ==
    IF a.type = EAPMessage THEN 2 * Chunks(a.data) + Len(a.data) ELSE Len(a.data) + 2

Pack(a) ==
    IF a.type # EAPMessage
    THEN Avp(a.type, a.data)
    ELSE FlattenSeq([i \in 1 .. Chunks(a.data) |->
             Avp(EAPMessage, SubSeq(a.data, (i - 1) * MaxDataLength + 1,
                                    Min2(i * MaxDataLength, Len(a.data))))])

PackAttributes(attrs) == FlattenSeq([i \in DOMAIN attrs |-> Pack(attrs[i])])

\* The bytes of the first n attributes, by their lengths.
Lengths(attrs) ==
    LET total[n \in 0 .. Len(attrs)] == IF n = 0 THEN 0 ELSE total[n - 1] + FullLength(attrs[n])
    IN  total

\* The length of the whole packet, as its header has it.
PacketLength(attrs) == HeaderLength + Lengths(attrs)[Len(attrs)]

\* The bytes that digests are made of (RadiusPacket.pack).
Packed(attrs) == <<PacketLength(attrs)>> \o PackAttributes(attrs)

\* find, and the number of bytes before the attribute that it finds (indexof).
Has(t, attrs) == \E i \in DOMAIN attrs : attrs[i].type = t
First(t, attrs) == SelectInSeq(attrs, LAMBDA a : a.type = t)
IndexOf(t, attrs) == Lengths(attrs)[First(t, attrs) - 1]

WithAuthenticator(attrs, d) ==
    [i \in DOMAIN attrs |-> IF i = First(MessageAuthenticator, attrs)
                            THEN Attribute(MessageAuthenticator, d) ELSE attrs[i]]

-----------------------------------------------------------------------------
(* A request: its digest replaces the zeros of its Message-Authenticator. *)

PacketInit ==
    /\ phase = "idle"
    /\ sent = <<>> /\ bytes = <<>>
    /\ pos = 0 /\ attributes = <<>> /\ toConcat = <<>> /\ index = 0 /\ last = 0

\* Mutant: the header of the Message-Authenticator is not skipped.
BuildInHeader(attrs) ==
    LET packed == PackAttributes(attrs)
        position == IndexOf(MessageAuthenticator, attrs)
    IN  [i \in DOMAIN packed |-> IF i - position \in 1 .. DigestLength
                                 THEN Digest[i - position] ELSE packed[i]]

Build(attrs) ==
    LET packed == PackAttributes(attrs)
        position == IndexOf(MessageAuthenticator, attrs) + 2
    IN  [i \in DOMAIN packed |-> IF i - position \in 1 .. DigestLength
                                 THEN Digest[i - position] ELSE packed[i]]

\* The values of up to n bytes.
Values(n) == UNION {[1 .. k -> Byte] : k \in 0 .. n}

\* The port is left out if it is not known.
EncodeMabMessage ==
    /\ phase = "idle"
    /\ \E mac \in Values(MaxDataLength) \ {<<>>}, port \in {<<>>} \cup [1 .. MaxDataLength -> Byte] :
        sent' = <<Attribute(CallingStationId, mac)>>
                  \o (IF port = <<>> THEN <<>> ELSE <<Attribute(NASPort, port)>>)
                  \o <<Attribute(MessageAuthenticator, Zeros)>>
    /\ bytes' = Build(sent')
    /\ phase' = "requested"
    /\ UNCHANGED loopVars

-----------------------------------------------------------------------------
(* A response, which the network may damage; and what the server signed. *)

Wire(attrs) == FlattenSeq([i \in DOMAIN attrs |-> Avp(attrs[i].type, attrs[i].data)])
Signed(attrs) == WithAuthenticator(attrs, Digest)

\* One byte of the data arrives as another.
Damaged(attrs, i, j, b) == [attrs EXCEPT ![i].data[j] = b]

\* What a server may answer: any AVPs, with one Message-Authenticator at most.  Parts of an
\* EAP-Message may be empty, not full, or apart from each other; other values may be empty,
\* or of a type that the program does not know.
ResponseAvp ==
    {Attribute(EAPMessage, d) : d \in Values(MaxDataLength)}
      \cup {Attribute(TunnelPrivateGroupID, d) : d \in Values(1)}
      \cup {Attribute(Class, d) : d \in [1 .. 1 -> Byte]}
      \cup {Attribute(MessageAuthenticator, Zeros)}

ServerResponse ==
    {r \in UNION {[1 .. n -> ResponseAvp] : n \in 0 .. MaxAvps} :
        \A i, j \in DOMAIN r : r[i].type = MessageAuthenticator /\ r[j].type = MessageAuthenticator => i = j}

Receive ==
    /\ phase = "idle"
    /\ \E attrs \in ServerResponse :
        /\ sent' = attrs
        /\ \/ bytes' = Wire(Signed(attrs))
           \/ \E i \in DOMAIN attrs, b \in Byte : \E j \in DOMAIN attrs[i].data :
                  bytes' = Wire(Damaged(Signed(attrs), i, j, b))
    /\ phase' = "extract"
    /\ UNCHANGED loopVars

Unpacked == phase = "extract" /\ pos = Len(bytes)

\* Mutant: every AVP counts as an attribute, also the further parts of an EAP-Message.
PositionOfEvery(t) == index + 1

\* The position of an attribute once the parts of each EAP-Message are joined.
Position(t) == IF t # EAPMessage \/ last # t THEN index + 1 ELSE index

\* ATTRIBUTE_TYPES has a parser for the type, which takes the data.
Parses(t, d) == t \in KnownType /\ ValidLength(t, d)

\* One turn of the loop of extract_attributes: the next AVP.
ExtractAttribute ==
    /\ phase = "extract" /\ pos < Len(bytes)
    /\ LET type == bytes[pos + 1]
           length == bytes[pos + 2]
           data == SubSeq(bytes, pos + 3, pos + length)
       IN  /\ Parses(type, data)
           /\ pos' = pos + length
           /\ index' = Position(type)
           /\ last' = type
           /\ attributes' = Append(attributes, Attribute(type, data))
           /\ toConcat' = IF type # EAPMessage THEN toConcat
                          ELSE Append(toConcat, [data |-> data, index |-> index'])
    /\ UNCHANGED <<phase, sent, bytes>>

\* A type without a parser, or data of a length that its type does not have:
\* MessageParseError.
ExtractFails ==
    /\ phase = "extract" /\ pos < Len(bytes)
    /\ ~Parses(bytes[pos + 1], SubSeq(bytes, pos + 3, pos + bytes[pos + 2]))
    /\ phase' = "rejected"
    /\ UNCHANGED <<sent, bytes, loopVars>>

\* The parts are joined; the value goes to the position of the last part, or to the end.
Merged ==
    LET others == FlattenSeq([i \in DOMAIN attributes |->
                      IF attributes[i].type = EAPMessage THEN <<>> ELSE <<attributes[i]>>])
        value == FlattenSeq([i \in DOMAIN toConcat |-> toConcat[i].data])
    IN  InsertAt(others, Min2(Last(toConcat).index, Len(others) + 1), Attribute(EAPMessage, value))

MergeConcatAttributes ==
    /\ Unpacked
    /\ attributes' = IF toConcat = <<>> THEN attributes ELSE Merged
    /\ phase' = "validate"
    /\ pos' = 0 /\ toConcat' = <<>> /\ index' = 0 /\ last' = 0
    /\ UNCHANGED <<sent, bytes>>

\* The bytes of a packet that its sender made digests of.
Hashed(wire) == <<HeaderLength + Len(wire)>> \o wire

\* The Response Authenticator is right: the packet as it was signed.
ValidResponseAuthenticator == Packed(attributes) = Hashed(Wire(Signed(sent)))

\* The Message-Authenticator, if there is one, is right: the packet with zeros instead.
ValidMessageAuthenticator ==
    Has(MessageAuthenticator, attributes) =>
        /\ attributes[First(MessageAuthenticator, attributes)].data = Digest
        /\ Packed(WithAuthenticator(attributes, Zeros)) = Hashed(Wire(sent))

\* validate_packet changes a copy only.
ValidateReceived ==
    /\ phase = "validate"
    /\ phase' = IF ValidResponseAuthenticator /\ ValidMessageAuthenticator
                THEN "accepted" ELSE "rejected"
    /\ UNCHANGED <<sent, bytes, loopVars>>

\* The next packet.  After a rejected one there is none: the exception leaves the
\* receiving thread.
Return ==
    /\ phase \in {"requested", "accepted"}
    /\ phase' = "idle"
    /\ sent' = <<>> /\ bytes' = <<>> /\ attributes' = <<>>
    /\ UNCHANGED <<pos, toConcat, index, last>>

ThreadIsDead == phase = "rejected" /\ UNCHANGED packetVars

PacketNext ==
    \/ EncodeMabMessage
    \/ Receive
    \/ ExtractAttribute
    \/ ExtractFails
    \/ MergeConcatAttributes
    \/ ValidateReceived
    \/ Return
    \/ ThreadIsDead

PacketSpec == PacketInit /\ [][PacketNext]_packetVars

-----------------------------------------------------------------------------
(* Properties. *)

IsAttribute(a) == a.type \in Type /\ \A i \in DOMAIN a.data : a.data[i] \in 0 .. 255

PacketTypeOK ==
    /\ phase \in {"idle", "requested", "extract", "validate", "accepted", "rejected"}
    /\ \A i \in DOMAIN sent : IsAttribute(sent[i])
    /\ \A i \in DOMAIN bytes : bytes[i] \in 0 .. 255
    /\ pos \in 0 .. Len(bytes)
    /\ \A i \in DOMAIN attributes : IsAttribute(attributes[i])
    /\ \A i \in DOMAIN toConcat : toConcat[i].index \in 1 .. index
    /\ index \in 0 .. Len(attributes)
    /\ last \in Type \cup {0}

\* A response as servers send it (RFC 3579): the parts of an EAP-Message follow each other,
\* all but the last are full and none is empty; and other values are not empty.
WellFormed(attrs) ==
    LET eap == {i \in DOMAIN attrs : attrs[i].type = EAPMessage}
    IN  /\ \A i \in DOMAIN attrs : attrs[i].data # <<>>
        /\ \A i, j \in eap : i < j => /\ \A k \in i .. j : k \in eap
                                       /\ Len(attrs[i].data) = MaxDataLength

\* Every attribute is of a type that the program knows.
Known(attrs) == \A i \in DOMAIN attrs : attrs[i].type \in KnownType

\* A response that arrives as it was sent, is well formed and has attributes of known types
\* only is accepted: joined, placed and split again, it has the bytes that the server signed
\* (merge_concat_attributes, "required so the hashing gives correct hash").
IntactIsAccepted ==
    phase = "rejected" => ~(bytes = Wire(Signed(sent)) /\ WellFormed(sent) /\ Known(sent))

\* Not guaranteed: one attribute of another type, as Class, is enough to refuse an intact
\* response, and to end the receiving thread (extract_attributes).
EveryTypeIsAccepted ==
    phase = "rejected" => ~(bytes = Wire(Signed(sent)) /\ WellFormed(sent))

\* What is accepted is what the server signed: the attributes that the program reads have
\* the values sent, an EAP-Message that of all its parts together (validate_packet).
AcceptedIsIntact ==
    phase = "accepted" =>
        \A t \in Type :
            LET values(attrs) == FlattenSeq([i \in DOMAIN attrs |->
                                     IF attrs[i].type = t THEN attrs[i].data ELSE <<>>])
            IN  values(attributes) = values(Signed(sent))

\* The digest of a request is where its receiver looks for it, the rest is unchanged,
\* whatever comes before the Message-Authenticator (build, indexof).
RequestIsSigned == phase = "requested" => bytes = Wire(Signed(sent))

\* The invariant of the codec: types, signed requests and intact responses.
PacketInv == PacketTypeOK /\ RequestIsSigned /\ AcceptedIsIntact

=============================================================================
