-------------------------------- MODULE Urls --------------------------------
(***************************************************************************)
(* From the text of a remote reference to the secret a server takes it for:*)
(* reference.rs parses the text, vault.rs, conjur.rs and ccp.rs build the  *)
(* URL with http.rs percent_encode, and what is in front of the server may *)
(* drop "." and ".." segments before it decodes what is left. A symbol is  *)
(* a character, or the two hexadecimal digits of one, such as "2F".        *)
(***************************************************************************)
EXTENDS Texts, SequencesExt

CONSTANTS
    Body,      \* what follows seal:<provider>:
    Base,      \* what VAULT_ADDR, CONJUR_APPLIANCE_URL, SEALREF_CCP_URL may hold
    Tenant,    \* Conjur accounts, CyberArk application ids
    Unreserved,
    Hex        \* [other characters -> the digits of their code]

ASSUME HexAssumption ==
    /\ \A c, d \in DOMAIN Hex : Hex[c] = Hex[d] => c = d
    /\ \A c \in DOMAIN Hex : Hex[c] \notin DOMAIN Hex
    /\ {"/", "%", "#", "?", "&", "+", " "} \subseteq DOMAIN Hex
    /\ Unreserved \cap DOMAIN Hex = {"."}

Character == Unreserved \cup DOMAIN Hex

VARIABLES
    provider, body, base, tenant,
    ref,       \* the reference that was parsed: a record of texts
    url,       \* the URL the request is sent to
    read,      \* what the server reads out of it
    urlAt      \* "text", "parsed", "sent", "read", or "refused"

urls == <<provider, body, base, tenant, ref, url, read, urlAt>>

Has(t, c) == \E i \in DOMAIN t : t[i] = c

Split(t, c) ==
    LET parts[i \in 0..Len(t)] ==
            IF i = 0 THEN <<<< >>>>
            ELSE LET before == parts[i - 1]
                 IN  IF t[i] = c THEN Append(before, << >>)
                     ELSE [before EXCEPT ![Len(before)] = Append(@, t[i])]
    IN  parts[Len(t)]

Joined(parts) == FlattenSeq([n \in DOMAIN parts |-> IF n = 1 THEN parts[n] ELSE <<"/">> \o parts[n]])

(* Slip: ".." is thought of, "." is not.                                   *)
HasParentSegment(t) == \E n \in DOMAIN Split(t, "/") : Split(t, "/")[n] = <<".", ".">>

DotSegments == {<<".">>, <<".", ".">>}

HasDotSegment(t) == \E n \in DOMAIN Split(t, "/") : Split(t, "/")[n] \in DotSegments

(* <first>/<second>#<field>, split at the first "/" of what is in front of *)
(* the first "#".                                                          *)
Located(t) ==
    {[first |-> Slice(t, 1, p[1]), second |-> Slice(t, p[1] + 1, p[2]),
      field |-> SubSeq(t, p[2] + 1, Len(t))] :
        p \in {q \in (DOMAIN t) \X (DOMAIN t) :
            /\ First(<<"#">>, t, 1, q[2])
            /\ q[1] < q[2] /\ First(<<"/">>, t, 1, q[1])}}

Filled(l) == l.first # << >> /\ l.second # << >> /\ l.field # << >> /\ ~Has(l.field, "#")

VaultRefs ==
    {l \in Located(body) :
        /\ Filled(l)
        /\ \A c \in Blank : ~Has(body, c)
        /\ ~HasDotSegment(l.first) /\ ~HasDotSegment(l.second)}

ConjurRefs ==
    {[id |-> b] : b \in {t \in {body} :
        /\ t # << >>
        /\ \A c \in Blank \cup {"#"} : ~Has(t, c)
        /\ \A n \in DOMAIN Split(t, "/") : Split(t, "/")[n] # << >>
        /\ ~HasDotSegment(t)}}

CcpForbidden == {"+", "&", "%"}

CcpRefs ==
    {l \in Located(body) :
        /\ Filled(l)
        /\ ~Has(l.second, "/") /\ ~Has(l.field, "/")
        /\ \A t \in {l.first, l.second, l.field} :
            Trim(t) = t /\ \A c \in CcpForbidden : ~Has(t, c)}

Refs ==
    CASE provider = "vault" -> VaultRefs
      [] provider = "conjur" -> ConjurRefs
      [] provider = "ccp" -> CcpRefs

(* locator(): what errors and reports call the secret.                     *)
Locator ==
    IF provider = "conjur" THEN ref.id
    ELSE ref.first \o <<"/">> \o ref.second \o <<"#">> \o ref.field

Escaped(c) == <<"%", Hex[c]>>

PercentEncode(t) ==
    IF \A i \in DOMAIN t : t[i] = "." THEN FlattenSeq([i \in DOMAIN t |-> Escaped(".")])
    ELSE FlattenSeq([i \in DOMAIN t |->
            IF t[i] \in Unreserved THEN <<t[i]>> ELSE Escaped(t[i])])

PercentEncodePath(t) ==
    Joined([n \in DOMAIN Split(t, "/") |-> PercentEncode(Split(t, "/")[n])])

NormaliseBaseUrl(t) ==
    SubSeq(Trim(t), 1, CHOOSE n \in 0..Len(Trim(t)) :
        /\ n > 0 => Trim(t)[n] # "/"
        /\ \A j \in (n + 1)..Len(Trim(t)) : Trim(t)[j] = "/")

(* What is configured: a base address with slashes and blanks behind it,   *)
(* without a query, an escape or a dot segment; and a tenant's name.       *)
IsAddress(h) ==
    /\ \A n \in DOMAIN Split(h, "/") : Split(h, "/")[n] \notin DotSegments \cup {<< >>}
    /\ \A c \in {"#", "?", "%"} : ~Has(h, c)

ASSUME TextAssumption ==
    /\ Body \subseteq Seq(Character)
    /\ Tenant \subseteq Seq(Character) \ (DotSegments \cup {<< >>})
    /\ Base \subseteq Seq(Character \cup Blank)
    /\ \A b \in Base : \E n \in 0..Len(Trim(b)) :
        /\ IsAddress(SubSeq(Trim(b), 1, n))
        /\ \A j \in (n + 1)..Len(Trim(b)) : Trim(b)[j] = "/"

DataUrl == <<NormaliseBaseUrl(base), <<"v1">>, PercentEncode(ref.first), <<"data">>,
             PercentEncodePath(ref.second)>>

SecretUrl == <<NormaliseBaseUrl(base), <<"secrets">>, PercentEncode(tenant), <<"variable">>,
               PercentEncodePath(ref.id)>>

RequestUrl ==
    <<NormaliseBaseUrl(base),
      <<"Accounts", "?", "AppID", "=">> \o PercentEncode(tenant)
        \o <<"&", "Safe", "=">> \o PercentEncode(ref.first)
        \o <<"&", "Object", "=">> \o PercentEncode(ref.second)>>

UrlInit ==
    /\ provider \in {"vault", "conjur", "ccp"}
    /\ body \in Body
    /\ base \in Base
    /\ tenant \in Tenant
    /\ ref = [none |-> << >>]
    /\ url = << >>
    /\ read = [path |-> << >>, query |-> << >>]
    /\ urlAt = "text"

Parse ==
    /\ urlAt = "text"
    /\ ref' \in Refs
    /\ urlAt' = "parsed"
    /\ UNCHANGED <<provider, body, base, tenant, url, read>>

Refuse ==
    /\ urlAt = "text" /\ Refs = {}
    /\ urlAt' = "refused"
    /\ UNCHANGED <<provider, body, base, tenant, ref, url, read>>

Address ==
    /\ urlAt = "parsed"
    /\ url' = Joined(CASE provider = "vault" -> DataUrl
                       [] provider = "conjur" -> SecretUrl
                       [] provider = "ccp" -> RequestUrl)
    /\ urlAt' = "sent"
    /\ UNCHANGED <<provider, body, base, tenant, ref, read>>

(* A server: the URL up to "#", its query behind "?". A path segment "."   *)
(* goes, and so does one in front of a ".."; a server, or a proxy before   *)
(* it, does that as the segments are sent or as they read when decoded. In *)
(* a query "+" is a blank, too.                                            *)
EscapeAt(t, i) == t[i] = "%" /\ i < Len(t) /\ \E c \in DOMAIN Hex : Hex[c] = t[i + 1]

Decoded(t, plus) ==
    FlattenSeq([i \in DOMAIN t |->
        CASE EscapeAt(t, i) -> <<CHOOSE c \in DOMAIN Hex : Hex[c] = t[i + 1]>>
          [] i > 1 /\ EscapeAt(t, i - 1) -> << >>
          [] OTHER -> <<IF t[i] = "+" THEN plus ELSE t[i]>>])

UpTo(t, c) == Split(t, c)[1]

Removed(segments) ==
    LET kept[n \in 0..Len(segments)] ==
            CASE n = 0 -> << >>
              [] n > 0 /\ segments[n] = <<".">> -> kept[n - 1]
              [] n > 0 /\ segments[n] = <<".", ".">> -> Front(kept[n - 1])
              [] OTHER -> Append(kept[n - 1], segments[n])
    IN  kept[Len(segments)]

Receive ==
    /\ urlAt = "sent"
    /\ LET whole == UpTo(url, "#")
           path  == Split(UpTo(whole, "?"), "/")
           query == IF Has(whole, "?") THEN Split(Split(whole, "?")[2], "&") ELSE << >>
           Read(parts, plus) == [n \in DOMAIN parts |-> Decoded(parts[n], plus)]
       IN  \E view \in {Read(Removed(path), "+"), Removed(Read(path, "+"))} :
              read' = [path |-> view, query |-> Read(query, " ")]
    /\ urlAt' = "read"
    /\ UNCHANGED <<provider, body, base, tenant, ref, url>>

UrlNext == Parse \/ Refuse \/ Address \/ Receive

UrlSpec == UrlInit /\ [][UrlNext]_urls

-----------------------------------------------------------------------------
(* The reference committed to a file reads as what it means (reference.rs: *)
(* 225-231): the server takes the URL for the very secret that the text    *)
(* names, under the configured base address, whatever it holds of "/",     *)
(* ".", escapes and what separates the parts of a URL, and although "."    *)
(* and ".." segments are removed on the way. So no two references that are *)
(* not the same address one secret. What reports and errors print of one   *)
(* is the text it was parsed from, cut at no other place (reference.rs:72, *)
(* 90, 109), and a base address that ends in slashes or blanks makes no    *)
(* segment that the reference has not (http.rs:444).                       *)
Under(suffix) == Split(NormaliseBaseUrl(base), "/") \o suffix

ReadAsMeant ==
    /\ provider = "vault" =>
        /\ read.path = Under(<<<<"v1">>, ref.first, <<"data">>>> \o Split(ref.second, "/"))
        /\ read.query = << >>
    /\ provider = "conjur" =>
        /\ read.path = Under(<<<<"secrets">>, tenant, <<"variable">>>> \o Split(ref.id, "/"))
        /\ read.query = << >>
    /\ provider = "ccp" =>
        /\ read.path = Under(<<<<"Accounts">>>>)
        /\ read.query = <<<<"AppID", "=">> \o tenant, <<"Safe", "=">> \o ref.first,
                          <<"Object", "=">> \o ref.second>>

LocatorIsTheText ==
    /\ Refs = {ref}
    /\ Locator = body
    /\ provider # "conjur" => ~Has(ref.first, "/") /\ ~Has(ref.field, "#")

NoEmptySegment ==
    \A n \in DOMAIN read.path :
        read.path[n] = << >> => provider = "vault" /\ n >= Len(Under(<< >>)) + 4

ReachesWhatItNames ==
    /\ urlAt \in {"parsed", "sent", "read"} => LocatorIsTheText
    /\ urlAt = "read" => ReadAsMeant /\ NoEmptySegment
=============================================================================
