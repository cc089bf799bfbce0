------------------------------- MODULE Identities -------------------------------
(***************************************************************************)
(* The keys under which publications meet.  A resource, a channel row and  *)
(* an orphan candidate are stored under an id which is the digest of a     *)
(* text; the text joins the logical parts, each escaped, around            *)
(* delimiters.  The other modules look rows up by what the ids stand for.  *)
(* That an id of the code finds the same rows is shown here.               *)
(*                                                                         *)
(* The digest (uuid5) is taken to be injective.  A text is a sequence of   *)
(* marks: a delimiter, a character as it is, or a character escaped.       *)
(***************************************************************************)
EXTENDS Publication, Sequences

CONSTANTS
    Characters,    \* what names, versions and digests are made of
    Unreserved,    \* the characters that quote leaves as they are
    Parts,         \* the texts that may be parts of a key
    Numerals,      \* the pointer versions, as they are written
    IdentityOf     \* the identity that each of Resources stands for

Delimiters == {":", "/", "@", "#", "|"}

ASSUME UnreservedAssumption == /\ Unreserved \subseteq Characters
                               /\ Unreserved \cap Delimiters = {}
ASSUME PartsAssumption == Parts \subseteq Seq(Characters)
ASSUME NumeralsAssumption == Numerals \subseteq Seq(Unreserved)

\* (a faulty variant: the default of quote, which leaves slashes as they are)
EscapeDefault(c) == IF c \in Unreserved \union {"/"} THEN <<c>> ELSE <<"%", c>>

\* quote with safe = "".  The mark of a character that is not left as it is
\* stands for the percent-encoding of its UTF-8 bytes, which no other has.
Escape(c) == IF c \in Unreserved THEN <<c>> ELSE <<"%", c>>

Escaped(text) == [i \in DOMAIN text |-> Escape(text[i])]
Plain(text) == [i \in DOMAIN text |-> <<text[i]>>]
Mark(delimiter) == << <<delimiter>> >>

Identities == [namespace : Parts, kind : Parts, name : Parts, version : Parts]

ASSUME IdentitiesAssumption ==
    /\ IdentityOf \in [Resources -> Identities]
    /\ \A left, right \in Resources : IdentityOf[left] = IdentityOf[right] => left = right

\* The rows of channels, and the orphan candidates.
ChannelVersions == [namespace : Parts, kind : Parts, name : Parts, channel : Parts,
                    version : Numerals]
OrphanCandidates == [resource : Parts, object : Parts, digest : Parts]

Address(key) == Escaped(key.namespace) \o (Mark(":") \o
                    (Escaped(key.kind) \o (Mark("/") \o Escaped(key.name))))

\* ResourceIdentity.canonical
Canonical(identity) == Address(identity) \o (Mark("@") \o Escaped(identity.version))

\* channel_version_id
ChannelVersionId(row) ==
    Address(row) \o (Mark("#") \o (Escaped(row.channel) \o (Mark("@") \o Plain(row.version))))

\* orphan_candidate_id
OrphanCandidateId(candidate) ==
    Escaped(candidate.resource) \o (Mark("|") \o
        (Escaped(candidate.object) \o (Mark("|") \o Escaped(candidate.digest))))

\* Names contain colons and slashes, versions anything that prints.  Still no two
\* identities share a resource id, no two rows of channels a row id (of two
\* promoters of one predecessor, who alone must collide), and no two Objects an
\* orphan candidate.
KeysAreDistinct ==
    /\ \A left, right \in Identities :
           Canonical(left) = Canonical(right) => left = right
    /\ \A left, right \in ChannelVersions :
           ChannelVersionId(left) = ChannelVersionId(right) => left = right
    /\ \A left, right \in OrphanCandidates :
           OrphanCandidateId(left) = OrphanCandidateId(right) => left = right

\* What get_resource and stat read: the rows under a resource id, the Objects
\* under artifacts/ with the same.
RowsUnder(table, key) == {row \in table : Canonical(IdentityOf[row.id]) = key}

\* Whatever has been published, a lookup of an identity finds all that was stored
\* for it and nothing that was stored for another: if_absent and create_only, and
\* the comparison with what is there, never take one resource for another.
LookupsFindTheirOwn == \A id \in Resources :
    LET key == Canonical(IdentityOf[id])
    IN  /\ RowsUnder(metadata, key) = RowsOf(metadata, id)
        /\ RowsUnder(objects, key) = RowsOf(objects, id)
================================================================================
