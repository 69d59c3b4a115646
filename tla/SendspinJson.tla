---------------------------- MODULE SendspinJson ----------------------------
(***************************************************************************)
(* apps/sendspin/sendspin_protocol.c: the JSON scanner.  A text is a       *)
(* sequence of tokens [t, v]: the structural characters, "ws" for a run of *)
(* blanks, "str", "int", "frac" (a number with a fraction or an exponent), *)
(* "lit" (true, false, null) and "bad" for characters no scanner accepts.  *)
(* A cursor is a position in the text, Bad when the scan has failed.       *)
(*                                                                         *)
(* A document d that is read is a record of its text and of the function   *)
(* that skips its values.                                                  *)
(***************************************************************************)
EXTENDS Integers, Sequences

Bad == 0

Positions(d) == 0 .. Len(d.text) + 1

At(d, p) == IF p \in DOMAIN d.text THEN d.text[p].t ELSE "end"
Word(d, p) == d.text[p].v

(* A character that must come next: *c->p == t, ++c->p. *)
Expect(d, p, t) == IF p # Bad /\ At(d, p) = t THEN p + 1 ELSE Bad

skip_ws(d, p) == IF At(d, p) = "ws" THEN p + 1 ELSE p

scan_string(d, p) == Expect(d, p, "str")

(* Behind the key and the colon of the member at p. *)
MemberValue(d, p) == Expect(d, skip_ws(d, scan_string(d, p)), ":")

(* The place behind a value, the rest of an object or of an array.  After  *)
(* a comma an object's next key must follow at once.  match_literal and    *)
(* skip_number are the one-token case.                                     *)
SkipValue(d, p, Skip(_, _)) ==
  CASE At(d, p) = "{" -> LET q == skip_ws(d, p + 1)
                         IN IF At(d, q) = "}" THEN q + 1 ELSE Skip("members", q)
    [] At(d, p) = "[" -> LET q == skip_ws(d, p + 1)
                         IN IF At(d, q) = "]" THEN q + 1 ELSE Skip("elements", q)
    [] At(d, p) \in {"str", "int", "frac", "lit"} -> p + 1
    [] OTHER -> Bad

SkipRest(d, what, p, close, Skip(_, _)) ==
  IF At(d, p) = "," THEN Skip(what, p + 1) ELSE Expect(d, p, close)

(* skip_value, skip_object and skip_array. *)
Skips(d) ==
  LET skip[x \in {"value", "members", "elements"} \X Positions(d)] ==
        LET Skip(what, p) == skip[<<what, p>>]
        IN CASE x[2] = Bad -> Bad
             [] x[2] # Bad /\ x[1] = "value" -> SkipValue(d, skip_ws(d, x[2]), Skip)
             [] x[2] # Bad /\ x[1] = "members" ->
                  SkipRest(d, "members", skip_ws(d, Skip("value", MemberValue(d, x[2]))), "}", Skip)
             [] OTHER -> SkipRest(d, "elements", skip_ws(d, Skip("value", x[2])), "]", Skip)
  IN skip

Loaded(text) == [text |-> text, skip |-> Skips([text |-> text])]

skip_value(d, p) == d.skip[<<"value", p>>]

(* parse_number takes integers only; the other types are skipped as above. *)
parse_value(d, p) == IF At(d, skip_ws(d, p)) = "frac" THEN Bad ELSE skip_value(d, p)

(* The value at p is an array with the string needle in it. *)
parse_array_membership(d, p, needle) ==
  LET has[q \in Positions(d)] ==
        \/ At(d, skip_ws(d, q)) = "str" /\ Word(d, skip_ws(d, q)) = needle
        \/ LET n == skip_ws(d, skip_value(d, q)) IN At(d, n) = "," /\ has[n + 1]
  IN At(d, skip_ws(d, p)) = "[" /\ has[skip_ws(d, p) + 1]
----------------------------------------------------------------------------
(* One member in the loop of scan_fields: key at s, value at v, and where  *)
(* its end is.  A key in lists is read by parse_array_membership, which    *)
(* skips what is no list.                                                  *)
FieldEnd(d, s, v, wanted, lists) ==
  IF Bad \in {s, v} THEN Bad
  ELSE skip_ws(d, IF Word(d, s) \in wanted \ lists THEN parse_value(d, v) ELSE skip_value(d, v))

With(at, key, v) == [k \in DOMAIN at \cup {key} |-> IF k = key THEN v ELSE at[k]]

(* Of a key in wanted, the first occurrence counts. *)
ScanMember(d, s, v, n, wanted, Scan(_, _)) ==
  LET rest == IF At(d, n) = "," THEN Scan(wanted \ {Word(d, s)}, n + 1)
              ELSE [ok |-> At(d, n) = "}", at |-> <<>>]
  IN IF Word(d, s) \in wanted THEN [rest EXCEPT !.at = With(@, Word(d, s), skip_ws(d, v))] ELSE rest

(* [ok, at]: at maps the keys that were found to where their values start. *)
scan_fields(d, p, keys, lists) ==
  LET scan[x \in (SUBSET keys) \X Positions(d)] ==
        LET s == skip_ws(d, x[2])
            v == MemberValue(d, s)
            n == FieldEnd(d, s, v, x[1], lists)
        IN CASE At(d, s) = "}" -> [ok |-> TRUE, at |-> <<>>]
             [] At(d, s) # "}" /\ Bad \in {v, n} -> [ok |-> FALSE, at |-> <<>>]
             [] OTHER -> ScanMember(d, s, v, n, x[1], LAMBDA w, q : scan[<<w, q>>])
      start == Expect(d, skip_ws(d, p), "{")
  IN IF start = Bad THEN [ok |-> FALSE, at |-> <<>>] ELSE scan[<<keys, start>>]

(* The type of a field's value, "none" when the field is absent. *)
FieldType(d, fields, key) ==
  IF key \in DOMAIN fields.at THEN At(d, fields.at[key]) ELSE "none"

FieldValue(d, fields, key) == Word(d, fields.at[key])
----------------------------------------------------------------------------
(* Where the value of segment in the object at p starts: "absent" is       *)
(* EAF_UNSUPPORTED.                                                        *)
DescendMember(d, s, v, segment, Next(_)) ==
  LET n == skip_ws(d, skip_value(d, v))
  IN CASE v = Bad -> [rc |-> "invalid", p |-> Bad]
       [] v # Bad /\ Word(d, s) = segment -> [rc |-> "ok", p |-> skip_ws(d, v)]
       [] At(d, n) = "," /\ Word(d, s) # segment -> Next(n + 1)
       [] OTHER -> [rc |-> IF At(d, n) = "}" THEN "absent" ELSE "invalid", p |-> Bad]

descend(d, p, segment) ==
  LET from[q \in Positions(d)] ==
        LET s == skip_ws(d, q)
        IN IF At(d, s) = "}" THEN [rc |-> "absent", p |-> Bad]
           ELSE DescendMember(d, s, MemberValue(d, s), segment, LAMBDA n : from[n])
      start == Expect(d, skip_ws(d, p), "{")
  IN IF start = Bad THEN [rc |-> "invalid", p |-> Bad] ELSE from[start]

(* The last value of a path must be readable. *)
Readable(d, found) ==
  IF found.rc = "ok" /\ parse_value(d, found.p) = Bad THEN [rc |-> "invalid", p |-> Bad] ELSE found

(* Follows the segments of a path. *)
eaf_sendspin_json_get(d, path) ==
  LET get[i \in 0 .. Len(path)] ==
        IF i = 0 THEN [rc |-> "ok", p |-> 1]
        ELSE IF get[i - 1].rc # "ok" THEN get[i - 1] ELSE descend(d, get[i - 1].p, path[i])
  IN Readable(d, get[Len(path)])
=============================================================================
