------------------------------ MODULE Headers ------------------------------
(***************************************************************************)
(* The header fields of src/src/headers.c: a sequence of names in lower    *)
(* case and values, to which headers_set appends.  Requests and responses  *)
(* have one each.  A name is one of the few the models use.                *)
(***************************************************************************)
EXTENDS Naturals, Sequences

CONSTANT NULL   \* what headers_get returns for a name that is not there

headers_create == <<>>

tolower_not(name) == name

tolower(name) ==
    CASE name \in {"HOST", "Host"} -> "host"
      [] name = "Content-Type" -> "content-type"
      [] OTHER -> name

headers_set(headers, name, value) ==
    Append(headers, [name |-> tolower(name), value |-> value])

(* The value of the first field with that name. *)
headers_get(headers, name) ==
    LET found == {i \in 1 .. Len(headers) : headers[i].name = tolower(name)}
    IN  IF found = {} THEN NULL
        ELSE headers[CHOOSE i \in found : \A j \in found : i <= j].value
=============================================================================
