--------------------------- MODULE FieldTransmute ----------------------------
(***************************************************************************)
(* derive(FieldTransmute) (struct_filter/src/lib.rs): which declarations   *)
(* get a constructor that reinterprets the bytes of a packet. A type is    *)
(* the last name of its path under arrays, references and other type       *)
(* constructors, outermost first; own says that the name is not the        *)
(* primitive type but one the program declared itself.                     *)
(***************************************************************************)
EXTENDS Integers, Sequences

CONSTANTS
    Numeric,   \* u8, i8, ... u64, i64
    Name       \* these and names of other types

ASSUME FieldTransmuteAssumption == Numeric \subseteq Name

Wrapper == {"array", "reference", "tuple"}
FieldType(depth) == [wraps : UNION {[1 .. d -> Wrapper] : d \in 0 .. depth},
                     name : Name, own : BOOLEAN]

\* The declaration the macro is applied to; fields of an enum or a union are
\* not looked at.
Declaration(depth, fields) ==
    [data : {"struct", "enum"}, named : BOOLEAN,
     fields : UNION {[1 .. n -> FieldType(depth)] : n \in 0 .. fields}]

type_checking(ty) == ty.name \in Numeric

\* Arrays and references are stripped, any other constructor is an error.
field_type_check(ty) ==
    /\ \A i \in DOMAIN ty.wraps : ty.wraps[i] \in {"array", "reference"}
    /\ type_checking(ty)

\* Mutant: what the macro checked is not checked again by the compiler.
direct_packet_access_unchecked(ty) == TRUE

\* The trait is implemented for the primitive types and for arrays of them.
direct_packet_access_ok(ty) ==
    /\ ty.name \in Numeric /\ ~ ty.own
    /\ ty.wraps \in {<<>>, <<"array">>}

\* Fields of a tuple struct have no name to unwrap: the macro panics.
ensure_numberic(d) ==
    LET looked == IF d.data = "struct" THEN DOMAIN d.fields ELSE {} IN
    IF d.data = "struct" /\ d.named
           /\ \E i \in looked : ~ field_type_check(d.fields[i])
    THEN "error"
    ELSE IF looked # {} /\ ~ d.named THEN "panic"
    ELSE IF \E i \in looked : ~ direct_packet_access_ok(d.fields[i])
    THEN "rejected" ELSE "new"

\* Every pattern of bytes is a value of the type.
Plain(ty) ==
    /\ ty.name \in Numeric /\ ~ ty.own
    /\ \A i \in DOMAIN ty.wraps : ty.wraps[i] = "array"
=============================================================================
