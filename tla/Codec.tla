-------------------------------- MODULE Codec ------------------------------
(***************************************************************************)
(* The patch codec of src/src/codec.rs: operations written to and read     *)
(* from bytes, with LEB128 varints.  The widths are parameters, so that    *)
(* every boundary of the code is met by small numbers: a byte is below     *)
(* 2 * Base, and its upper half marks that a varint goes on.               *)
(***************************************************************************)
EXTENDS Integers, Sequences, SequencesExt

CONSTANTS
    Base,       \* 128, what seven bits hold
    IdMod,      \* 2^32, the width of a u32
    Groups,     \* 5, the bytes a varint may have
    FixedLen,   \* 8, the bytes of an Int or a Float
    KindCodes,  \* 0..7, the codes of the node kinds other than Custom
    Ops,        \* the operations a patch may hold
    MaxOps,     \* bound on the operations of a patch
    MaxBytes    \* bound on the bytes that come from elsewhere

VARIABLES
    origin,     \* where data comes from: "encode_patch" or "elsewhere"
    patch,      \* the operations that were written, when they were
    data        \* the bytes to be read

vars == <<origin, patch, data>>

Byte == 0 .. 2 * Base - 1
U32 == 0 .. IdMod - 1

(* How many numbers n groups can tell apart.                               *)
Capacity[n \in 0..Groups] == IF n = 0 THEN 1 ELSE Base * Capacity[n - 1]

ASSUME WidthAssumption ==
    /\ Base \in Nat /\ 2 * Base >= 6  \* every tag is a byte
    /\ Groups \in Nat \ {0}
    /\ IdMod \in Nat \ {0} /\ IdMod <= Capacity[Groups]
    /\ FixedLen \in Nat
    /\ KindCodes \subseteq Byte

(* Option<T> beside the position the reader has reached.                   *)
None == [ok |-> FALSE]
Some(v, pos) == [ok |-> TRUE, value |-> v, pos |-> pos]
Then(r, Rest(_, _)) == IF r.ok THEN Rest(r.value, r.pos) ELSE None

----------------------------------------------------------------------------
(* Varints                                                                 *)

(* Mutant of EncodeVarint: the last group is taken to hold one more.       *)
EncodeVarintOffByOne(v) ==
    LET groups[w \in U32] ==
            IF w <= Base THEN <<w>>
            ELSE <<Base + (w % Base)>> \o groups[w \div Base]
    IN groups[v]

EncodeVarint(v) ==
    LET groups[w \in U32] ==
            IF w < Base THEN <<w>>
            ELSE <<Base + (w % Base)>> \o groups[w \div Base]
    IN groups[v]

EncodeUsize(v) == EncodeVarint(v % IdMod)

(* Mutant of DecodeVarint: one group too few is read.                      *)
DecodeVarintShort(bytes, pos) ==
    LET read[n \in 0..Groups] ==
            LET at == pos + Groups - n + 1 IN
            IF n <= 1 \/ at > Len(bytes) THEN None
            ELSE IF bytes[at] < Base THEN Some(bytes[at], at)
            ELSE Then(read[n - 1], LAMBDA v, p : Some((bytes[at] % Base) + Base * v, p))
    IN Then(read[Groups], LAMBDA v, p : Some(v % IdMod, p))

(* Mutant of DecodeVarint: the end of the data ends it, too.               *)
DecodeVarintUnended(bytes, pos) ==
    LET read[n \in 0..Groups] ==
            LET at == pos + Groups - n + 1 IN
            IF n = 0 THEN None
            ELSE IF at > Len(bytes) THEN Some(0, at - 1)
            ELSE IF bytes[at] < Base THEN Some(bytes[at], at)
            ELSE Then(read[n - 1], LAMBDA v, p : Some((bytes[at] % Base) + Base * v, p))
    IN Then(read[Groups], LAMBDA v, p : Some(v % IdMod, p))

(* With n groups left: the first byte without the mark ends the varint; no *)
(* byte left, or no group, is an error.  Bits beyond the width of a u32    *)
(* are shifted out.                                                        *)
DecodeVarint(bytes, pos) ==
    LET read[n \in 0..Groups] ==
            LET at == pos + Groups - n + 1 IN
            IF n = 0 \/ at > Len(bytes) THEN None
            ELSE IF bytes[at] < Base THEN Some(bytes[at], at)
            ELSE Then(read[n - 1], LAMBDA v, p : Some((bytes[at] % Base) + Base * v, p))
    IN Then(read[Groups], LAMBDA v, p : Some(v % IdMod, p))

----------------------------------------------------------------------------
(* Bytes, strings, kinds and values                                        *)

(* UTF-8: a string never holds the byte 0xFF.                              *)
IsText(s) == \A i \in DOMAIN s : s[i] # 2 * Base - 1

Take(bytes, pos, n) ==
    IF pos + n > Len(bytes) THEN None
    ELSE Some(SubSeq(bytes, pos + 1, pos + n), pos + n)

EncodeString(s) == EncodeUsize(Len(s)) \o s

DecodeBytes(bytes, pos) ==
    Then(DecodeVarint(bytes, pos), LAMBDA n, p : Take(bytes, p, n))

DecodeString(bytes, pos) ==
    Then(DecodeBytes(bytes, pos),
         LAMBDA s, p : IF IsText(s) THEN Some(s, p) ELSE None)

Custom == 2 * Base - 1

KindFrom(code) == IF code \in KindCodes THEN code ELSE Custom

(* A tag is the position of a name in a table, counted from 0.             *)
OpTags == <<"Insert", "Delete", "Update", "Relabel", "Move">>
ValueTags == <<"None", "Int", "Float", "Text", "Ident", "Bytes">>

TagOf(name, tags) == (CHOOSE i \in DOMAIN tags : tags[i] = name) - 1

DecodeTag(bytes, pos, tags) ==
    Then(Take(bytes, pos, 1),
         LAMBDA b, p : IF b[1] + 1 \in DOMAIN tags
                       THEN Some(tags[b[1] + 1], p) ELSE None)

(* NodeValue is [type, bytes]: a number is its FixedLen bytes.             *)
EncodeValue(v) ==
    <<TagOf(v.type, ValueTags)>>
      \o IF v.type \in {"None", "Int", "Float"}
         THEN v.bytes ELSE EncodeString(v.bytes)

DecodeValue(bytes, pos) ==
    LET payload(type, p) ==
            CASE type = "None" -> Some(<< >>, p)
              [] type \in {"Int", "Float"} -> Take(bytes, p, FixedLen)
              [] type \in {"Text", "Ident"} -> DecodeString(bytes, p)
              [] type = "Bytes" -> DecodeBytes(bytes, p)
    IN Then(DecodeTag(bytes, pos, ValueTags),
            LAMBDA type, p : Then(payload(type, p),
                LAMBDA s, q : Some([type |-> type, bytes |-> s], q)))

----------------------------------------------------------------------------
(* Operations and patches.  A DiffOp is [op, fields].                      *)

FieldsWritten ==
    [Insert  |-> <<"u32", "usize", "kind", "string", "value">>,
     Delete  |-> <<"u32">>,
     Update  |-> <<"u32", "value", "value">>,
     Relabel |-> <<"u32", "string", "string">>,
     Move    |-> <<"u32", "u32", "usize">>]

FieldsRead ==
    [Insert  |-> <<"u32", "usize", "kind", "string", "value">>,
     Delete  |-> <<"u32">>,
     Update  |-> <<"u32", "value", "value">>,
     Relabel |-> <<"u32", "string", "string">>,
     Move    |-> <<"u32", "u32", "usize">>]

EncodeField(type, x) ==
    CASE type = "u32"    -> EncodeVarint(x)
      [] type = "usize"  -> EncodeUsize(x)
      [] type = "kind"   -> <<x>>
      [] type = "string" -> EncodeString(x)
      [] type = "value"  -> EncodeValue(x)

DecodeField(type, bytes, pos) ==
    CASE type \in {"u32", "usize"} -> DecodeVarint(bytes, pos)
      [] type = "kind"   -> Then(Take(bytes, pos, 1),
                                 LAMBDA b, p : Some(KindFrom(b[1]), p))
      [] type = "string" -> DecodeString(bytes, pos)
      [] type = "value"  -> DecodeValue(bytes, pos)

(* One field after another, each from where the one before it ended.       *)
DecodeFields(types, bytes, pos) ==
    LET read[i \in 0..Len(types)] ==
            IF i = 0 THEN Some(<< >>, pos)
            ELSE Then(read[i - 1], LAMBDA done, p :
                     Then(DecodeField(types[i], bytes, p), LAMBDA x, q :
                         Some(Append(done, x), q)))
    IN read[Len(types)]

EncodeOp(o) ==
    <<TagOf(o.op, OpTags)>>
      \o FlattenSeq([i \in DOMAIN o.fields |->
                        EncodeField(FieldsWritten[o.op][i], o.fields[i])])

DecodeOp(bytes, pos) ==
    Then(DecodeTag(bytes, pos, OpTags),
         LAMBDA op, p : Then(DecodeFields(FieldsRead[op], bytes, p),
             LAMBDA fields, q : Some([op |-> op, fields |-> fields], q)))

EncodePatch(ops) ==
    EncodeUsize(Len(ops)) \o FlattenSeq([i \in DOMAIN ops |-> EncodeOp(ops[i])])

(* n operations, the same way.                                             *)
DecodeOps(n, bytes, pos) ==
    LET read[i \in 0..n] ==
            IF i = 0 THEN Some(<< >>, pos)
            ELSE Then(read[i - 1], LAMBDA done, p :
                     Then(DecodeOp(bytes, p), LAMBDA o, q : Some(Append(done, o), q)))
    IN read[n]

(* Bytes after the last operation are not looked at.                       *)
DecodePatch(bytes) ==
    Then(DecodeVarint(bytes, 0), LAMBDA n, p : DecodeOps(n, bytes, p))

----------------------------------------------------------------------------
(* What the fields of a DiffOp hold.  A text or a list of bytes has less   *)
(* than 4 GiB: a longer one is written with the wrong length.              *)

IsBytes(s) == s \in Seq(Byte) /\ Len(s) < IdMod

IsValue(v) ==
    /\ v = [type |-> v.type, bytes |-> v.bytes]
    /\ v.type \in ToSet(ValueTags)
    /\ v.type = "None" => v.bytes = << >>
    /\ v.type \in {"Int", "Float"} => v.bytes \in Seq(Byte) /\ Len(v.bytes) = FixedLen
    /\ v.type \in {"Text", "Ident"} => IsBytes(v.bytes) /\ IsText(v.bytes)
    /\ v.type = "Bytes" => IsBytes(v.bytes)

IsField(type, x) ==
    CASE type = "u32"    -> x \in U32
      [] type = "usize"  -> x \in Nat
      [] type = "kind"   -> x \in KindCodes \union {Custom}
      [] type = "string" -> IsBytes(x) /\ IsText(x)
      [] type = "value"  -> IsValue(x)

IsOp(o) ==
    /\ o = [op |-> o.op, fields |-> o.fields]
    /\ o.op \in ToSet(OpTags)
    /\ DOMAIN o.fields = DOMAIN FieldsWritten[o.op]
    /\ o.fields = [i \in DOMAIN o.fields |-> o.fields[i]]
    /\ \A i \in DOMAIN o.fields : IsField(FieldsWritten[o.op][i], o.fields[i])

ASSUME OpsAssumption ==
    /\ \A o \in Ops : IsOp(o)
    /\ MaxOps \in Nat /\ MaxOps < IdMod

----------------------------------------------------------------------------
(* What decode_patch is given: the bytes of a patch, or any bytes.         *)
Init ==
    /\ origin \in {"encode_patch", "elsewhere"}
    /\ patch = << >>
    /\ data = IF origin = "elsewhere" THEN << >> ELSE EncodePatch(<< >>)

AddOp(o) ==
    /\ origin = "encode_patch"
    /\ Len(patch) < MaxOps
    /\ patch' = Append(patch, o)
    /\ data' = EncodePatch(patch')
    /\ UNCHANGED origin

AddByte(b) ==
    /\ origin = "elsewhere"
    /\ Len(data) < MaxBytes
    /\ data' = Append(data, b)
    /\ UNCHANGED <<origin, patch>>

Next ==
    \/ \E o \in Ops : AddOp(o)
    \/ \E b \in Byte : AddByte(b)

Spec == Init /\ [][Next]_vars

----------------------------------------------------------------------------
(* What a u32 keeps of an operation.                                       *)
Narrowed(o) ==
    [o EXCEPT !.fields = [i \in DOMAIN @ |->
        IF FieldsWritten[o.op][i] = "usize" THEN @[i] % IdMod ELSE @[i]]]

(* decode_patch gives back what encode_patch was given, for every mix of   *)
(* operations, values and widths of varints, and reads to the last byte;   *)
(* all that is lost are the bits of an index beyond the 32nd.              *)
RoundTrip ==
    origin = "encode_patch" =>
    DecodePatch(data) = Some([i \in DOMAIN patch |-> Narrowed(patch[i])],
                             Len(data))

(* A patch says where it ends: of all the beginnings of the data, those    *)
(* that reach the end of the last announced operation are read as the same *)
(* patch and to the same place, whatever follows, and those that do not    *)
(* are refused, never read as fewer or other operations.                   *)
SelfDelimiting ==
    LET r == DecodePatch(data) IN
    \A n \in 0..Len(data) :
        DecodePatch(SubSeq(data, 1, n)) = IF r.ok /\ n >= r.pos THEN r ELSE None

(* Whatever bytes decode_patch accepts, it reads none beyond the last, and *)
(* the patch it makes of them is one encode_patch can write: in no more    *)
(* bytes than were read, and so that it is read as the same patch again    *)
(* (overlong varints, bits beyond the 32nd and unknown kinds do not        *)
(* survive, and do not come back as something else either).                *)
AcceptedIsWritable ==
    LET r == DecodePatch(data) IN
    r.ok => LET again == EncodePatch(r.value) IN
            /\ r.pos <= Len(data)
            /\ Len(again) <= r.pos
            /\ DecodePatch(again) = Some(r.value, Len(again))
============================================================================
