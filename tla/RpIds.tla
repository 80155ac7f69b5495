------------------------------- MODULE RpIds --------------------------------
(***************************************************************************)
(* Which RP id a client accepts from a server: get_effective_domain,       *)
(* validate_rp_id and is_equal_or_registrable_domain_suffix of ud.c, on    *)
(* the characters of the names.  What they decide is stated on labels, the *)
(* parts of a name between its dots, for which a name is written here.     *)
(***************************************************************************)
EXTENDS Integers, SequencesExt

CONSTANTS
    Domains,           \* names, as sequences of labels: hosts and RP ids
    PublicSuffixes     \* names on the list of libpsl, in lower case

Dot == 46

(* A name has one label or more, of the characters of a C string but dots. *)
Label == Seq(1 .. 255 \ {Dot})
DomainNames == Seq(Label) \ {<<>>}

(* The empty string, <<<<>>>>, is refused before anything is compared.     *)
ASSUME RpIdsAssumption ==
    /\ Domains \subseteq DomainNames \ {<<<<>>>>}
    /\ PublicSuffixes \subseteq DomainNames

VARIABLES
    host,       \* the name the client has connected to (SNI)
    rpId,       \* the RP id of the request, or <<>>: none given
    used,       \* data->rp_id, as text
    verdict     \* "none", "valid" or "invalid"

rpIdVars == <<host, rpId, used, verdict>>

AppendLabel(s, label) == s \o <<Dot>> \o label
Dotted == INSTANCE Iteration WITH Step <- AppendLabel

(* The C string of a name.                                                 *)
NameText(name) == Tail(Dotted!Iterate(<<>>, name))

(* tolower *)
Lower(c) == IF c \in 65 .. 90 THEN c + 32 ELSE c
LowerCase(s) == [i \in 1 .. Len(s) |-> Lower(s[i])]

(* psl_is_public_suffix2 with PSL_TYPE_ANY: a listed name, and any name    *)
(* without a dot.                                                          *)
IsPublicSuffix(s) ==
    s \in {NameText(n) : n \in PublicSuffixes} \/ \A i \in 1 .. Len(s) : s[i] # Dot

(* Mutant of AfterDot: the character before the suffix is not looked at.   *)
AfterDotNever(s, d) == TRUE

(* s[d], the character before the suffix, is a dot.                        *)
AfterDot(s, d) == d > 0 /\ s[d] = Dot

IsEqualOrRegistrableDomainSuffix(h, suffix) ==
    LET a == LowerCase(h)
        b == LowerCase(suffix)
        d == Len(a) - Len(b)
    IN  /\ Len(b) \in 1 .. Len(a)
        /\ \/ a = b
           \/ ~IsPublicSuffix(b) /\ SubSeq(a, d + 1, Len(a)) = b /\ AfterDot(a, d)

RpIdsStart ==
    /\ host \in Domains
    /\ rpId \in Domains \cup {<<>>}
    /\ used = <<>>
    /\ verdict = "none"

(* The server leaves the RP id to the client: the effective domain.        *)
UseEffectiveDomain ==
    /\ verdict = "none"
    /\ rpId = <<>>
    /\ used' = NameText(host)
    /\ verdict' = "valid"
    /\ UNCHANGED <<host, rpId>>

ValidateRpId ==
    /\ verdict = "none"
    /\ rpId # <<>>
    /\ used' = NameText(rpId)
    /\ verdict' = IF IsEqualOrRegistrableDomainSuffix(NameText(host), NameText(rpId))
                  THEN "valid" ELSE "invalid"
    /\ UNCHANGED <<host, rpId>>

Decided == verdict # "none" /\ UNCHANGED rpIdVars

RpIdsNext == UseEffectiveDomain \/ ValidateRpId \/ Decided

RpIdsSpec == RpIdsStart /\ [][RpIdsNext]_rpIdVars

-----------------------------------------------------------------------------
Labels(name) == [i \in 1 .. Len(name) |-> LowerCase(name[i])]

(* WebAuthn's "is a registrable domain suffix of or is equal to", label by *)
(* label and without regard to case.                                       *)
RegistrableSuffix(h, id) ==
    \/ Labels(id) = Labels(h)
    \/ /\ IsSuffix(Labels(id), Labels(h))
       /\ Len(id) > 1 /\ Labels(id) \notin PublicSuffixes

(* ud.c:250: the RP id "is a registrable domain suffix of / or is equal to *)
(* the RP's origin's effective domain".  Comparing characters decides the  *)
(* same: no label is cut in two, and no public suffix gets through.        *)
ValidIffRegistrable ==
    verdict # "none" /\ rpId # <<>> =>
      (verdict = "valid" <=> RegistrableSuffix(host, rpId))

=============================================================================
