------------------------------- MODULE MCCodec -----------------------------
(* Codec for TLC: two-bit groups, five-bit ids in at most three groups, so *)
(* that the last group has a bit to spare as in the code; fields on both   *)
(* sides of every boundary.                                                *)
EXTENDS Codec

Ids == {Base - 1, IdMod - 1}
Usizes == {Base, IdMod + 1}
Strings == {<< >>, <<1, 0, 2, 3, 0>>}
Payloads ==
    {[type |-> "None", bytes |-> << >>],
     [type |-> "Int", bytes |-> <<7, 0>>],
     [type |-> "Float", bytes |-> <<0, 7>>],
     [type |-> "Text", bytes |-> <<1>>],
     [type |-> "Ident", bytes |-> <<1>>],
     [type |-> "Bytes", bytes |-> <<7, 4, 0, 1>>]}

Operation(op, fields) == [op |-> op, fields |-> fields]

SampleOps ==
    {Operation("Insert", <<p, i, k, l, v>>) : p \in Ids, i \in Usizes,
        k \in {0, Custom}, l \in Strings, v \in Payloads}
    \union {Operation("Delete", <<n>>) : n \in Ids \union {0, Base}}
    \union {Operation("Update", <<n, v, w>>) : n \in Ids, v, w \in Payloads}
    \union {Operation("Relabel", <<n, l, m>>) : n \in Ids, l, m \in Strings}
    \union {Operation("Move", <<n, p, i>>) : n, p \in Ids, i \in Usizes}
============================================================================
