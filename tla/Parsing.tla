-------------------------------- MODULE Parsing --------------------------------
(***************************************************************************)
(* How LinkedIn's JSON becomes a profile (internal/linkedin/parse): the    *)
(* base document (profile.go, raw.go) and the documents of the optional    *)
(* sections (sections.go), into the type of internal/domain/profile.go.    *)
(*                                                                         *)
(* A JSON object is a record that may lack any of its fields; a document   *)
(* that does not decode is Malformed.  A text is a string of which only    *)
(* two things matter: whether it is empty or blank, and what its HTML      *)
(* entities stand for.  A URN is "" (or without a colon), "compound" (its  *)
(* id has parentheses or a comma) or "simple".  An optional value is a     *)
(* sequence of at most one element, and an absent collection is <<>>.      *)
(***************************************************************************)
EXTENDS Integers, Sequences, SequencesExt

CONSTANTS NoDocument,  \* nothing was read
          Malformed    \* what was read is not the JSON the decoder expects

Optional(S) == {<<>>} \cup {<<x>> : x \in S}

Field(object, name, default) ==
  IF name \in DOMAIN object THEN object[name] ELSE default

Text(object, name) == Field(object, name, "")

Clean(text) ==
  CASE text = "R&amp;D" -> "R&D"
    [] text = "&#32;" -> " "
    [] OTHER -> text

Trimmed(text) == IF text = " " THEN "" ELSE text

FirstNonEmpty(a, b) ==
  IF Trimmed(a) # "" THEN a ELSE IF Trimmed(b) # "" THEN b ELSE ""

Each(Op(_), s) == [i \in DOMAIN s |-> Op(s[i])]

\* In order, without the empty ones and the repetitions.
Distinct(s) ==
  FoldLeft(LAMBDA out, x : IF x = <<>> \/ Contains(out, x) THEN out
                           ELSE Append(out, x), <<>>, s)

------------------------------------------------------------------------------
(* Dates and links.                                                         *)

Dates == [year : Int, month : Int, day : Int]
DateRanges == [start : Optional(Dates), end : Optional(Dates)]

\* A date is absent when its year is.
Date(d) == SelectSeq(d, LAMBDA x : x.year # 0)

DateRange(object) ==
  LET range == Field(object, "dateRange", <<>>)
      start == IF range = <<>> THEN <<>> ELSE Date(range[1].start)
      end   == IF range = <<>> THEN <<>> ELSE Date(range[1].end)
  IN IF start = <<>> /\ end = <<>> THEN <<>>
     ELSE <<[start |-> start, end |-> end]>>

\* The kind of page a URN links to, "" for none.
EntityURL(urn, kind) == IF urn = "simple" THEN kind ELSE ""

------------------------------------------------------------------------------
(* The sections.  Each decoder says whether an item is usable, and what it  *)
(* becomes.                                                                 *)

SectionNames == {"experience", "education", "skills", "certifications",
                 "languages", "volunteer", "projects", "test_scores"}

Experience(p) ==
  LET title == Clean(Text(p, "title"))
      company == Trimmed(Clean(Text(p, "companyName")))
  IN [usable |-> title # "" \/ company # "",
      value |-> [title |-> title, company |-> company,
        company_url |-> EntityURL(Text(p, "companyUrn"), "company"),
        location |-> Clean(FirstNonEmpty(Text(p, "locationName"), Text(p, "geoLocationName"))),
        description |-> Clean(Text(p, "description")),
        date_range |-> DateRange(p)]]

Education(p) ==
  LET school == Clean(Text(p, "schoolName"))
      ownLink == EntityURL(Text(p, "schoolUrn"), "school")
  IN [usable |-> school # "",
      value |-> [school |-> school,
        school_url |-> IF ownLink # "" THEN ownLink
                       ELSE EntityURL(Text(p, "companyUrn"), "company"),
        degree |-> Clean(Text(p, "degreeName")),
        field_of_study |-> Clean(Text(p, "fieldOfStudy")),
        grade |-> Clean(Text(p, "grade")),
        activities |-> Clean(Text(p, "activities")),
        description |-> Clean(Text(p, "description")),
        date_range |-> DateRange(p)]]

Skill(p) ==
  [usable |-> Clean(Text(p, "name")) # "", value |-> Clean(Text(p, "name"))]

Certification(p) ==
  LET name == Clean(Text(p, "name"))
  IN [usable |-> name # "",
      value |-> [name |-> name, authority |-> Clean(Text(p, "authority")),
        authority_url |-> EntityURL(Text(p, "companyUrn"), "company"),
        url |-> Trimmed(Text(p, "url")),
        license_number |-> Clean(Text(p, "licenseNumber")),
        date_range |-> DateRange(p)]]

Language(p) ==
  LET name == Clean(Text(p, "name"))
  IN [usable |-> name # "",
      value |-> [name |-> name, proficiency |-> Text(p, "proficiency")]]

Volunteer(p) ==
  LET role == Clean(Text(p, "role"))
      organization == Trimmed(Clean(Text(p, "companyName")))
  IN [usable |-> role # "" \/ organization # "",
      value |-> [role |-> role, organization |-> organization,
        organization_url |-> EntityURL(Text(p, "companyUrn"), "company"),
        cause |-> Clean(Text(p, "cause")),
        description |-> Clean(Text(p, "description")),
        date_range |-> DateRange(p)]]

Project(p) ==
  LET title == Clean(Text(p, "title"))
  IN [usable |-> title # "",
      value |-> [title |-> title, description |-> Clean(Text(p, "description")),
                 date_range |-> DateRange(p)]]

TestScore(p) ==
  LET name == Clean(Text(p, "name"))
      score == Clean(Text(p, "score"))
  IN [usable |-> name # "" \/ score # "",
      value |-> [name |-> name, score |-> score,
        description |-> Clean(Text(p, "description")),
        date |-> Date(Field(p, "dateOn", <<>>))]]

Decode(section, p) ==
  CASE section = "experience" -> Experience(p)
    [] section = "education" -> Education(p)
    [] section = "skills" -> Skill(p)
    [] section = "certifications" -> Certification(p)
    [] section = "languages" -> Language(p)
    [] section = "volunteer" -> Volunteer(p)
    [] section = "projects" -> Project(p)
    [] section = "test_scores" -> TestScore(p)

(***************************************************************************)
(* A section's document: the URNs in the order of the page, and the items  *)
(* they may refer to, [urn, typed, object].  typed says that the object's  *)
(* fields have the types the decoders expect; an item without an entityUrn *)
(* has the urn "".                                                         *)
(***************************************************************************)

\* The item a URN stands for: the last one that carries it.
ItemFor(included, urn) ==
  included[Max({i \in DOMAIN included : included[i].urn = urn})]

Usable(section, included, urn) ==
  /\ urn # "" /\ \E i \in DOMAIN included : included[i].urn = urn
  /\ ItemFor(included, urn).typed
  /\ Decode(section, ItemFor(included, urn).object).usable

\* Mutant of ParseSection: the items in the order they are included in.
ParseInIncludedOrder(section, doc) ==
  LET usable == SelectSeq(doc.included, LAMBDA item :
                  item.typed /\ Decode(section, item.object).usable)
  IN Each(LAMBDA item : Decode(section, item.object).value, usable)

\* out[i] is what the loop has after i of the URNs.
ParseSection(section, doc) ==
  LET Value(urn) == Decode(section, ItemFor(doc.included, urn).object).value
      out[i \in 0..Len(doc.elements)] ==
        IF i = 0 THEN <<>>
        ELSE IF Usable(section, doc.included, doc.elements[i])
             THEN Append(out[i - 1], Value(doc.elements[i]))
             ELSE out[i - 1]
  IN out[Len(doc.elements)]

ProfileField(section) ==
  IF section = "volunteer" THEN "volunteer_experience" ELSE section

\* What ApplySection assigns to the field: nothing when the document does not
\* decode, which it also reports as an error.
SectionEntries(section, doc) ==
  IF doc = Malformed THEN <<>> ELSE ParseSection(section, doc)

SectionStatus(section, doc) ==
  IF doc = Malformed THEN "unavailable"
  ELSE IF SectionEntries(section, doc) = <<>> THEN "empty" ELSE "ok"

------------------------------------------------------------------------------
(* The base document: a collection of member entities, the first of which   *)
(* counts.                                                                  *)

Image(picture) ==
  LET usable == SelectSeq(picture[1].artifacts, LAMBDA a : a.width > 0 /\ a.segment # "")
      sorted == SortSeq(usable, LAMBDA a, b : a.width <= b.width)
      Variant(a) == [width |-> a.width, height |-> a.height,
                     url |-> <<picture[1].root, a.segment>>]
  IN IF picture = <<>> THEN <<>>
     ELSE IF picture[1].root = "" \/ usable = <<>> THEN <<>>
     ELSE <<[url |-> Variant(Last(sorted)).url, variants |-> Each(Variant, sorted)]>>

LocaleString(locale) ==
  LET language == Trimmed(Text(locale, "language"))
      country == Trimmed(Text(locale, "country"))
  IN IF language = "" THEN <<>>
     ELSE IF country = "" THEN <<language>> ELSE <<language, country>>

\* A hashtag URN has its name after a parenthesis, if it has one.
HashtagName(urn) ==
  IF urn.open /\ Trimmed(urn.name) # "" THEN <<Trimmed(urn.name)>> ELSE <<>>

NoSections == [f \in {ProfileField(s) : s \in SectionNames} |-> <<>>]

\* What the member's entity says.  The identity comes from the request's reference
\* ref, never from LinkedIn.
BaseOf(e, ref) ==
  LET first == Clean(Text(e, "firstName"))
      last == Clean(Text(e, "lastName"))
      creator == Field(e, "creatorInfo", <<>>)
      verification == Field(e, "verified", "null")
  IN [public_identifier |-> ref, profile_url |-> ref,
      first_name |-> first, last_name |-> last,
      full_name |-> SelectSeq(<<first, last>>, LAMBDA w : Trimmed(w) # ""),
      headline |-> Clean(Text(e, "headline")),
      summary |-> SelectSeq(<<Clean(Text(e, "summary"))>>, LAMBDA t : t # ""),
      profile_language |-> LocaleString(Field(e, "primaryLocale", <<>>)),
      supported_locales |-> Distinct(Each(LocaleString, Field(e, "supportedLocales", <<>>))),
      location |-> SelectSeq(<<Text(e, "countryCode")>>, LAMBDA t : t # ""),
      profile_picture |-> Image(Field(e, "profilePicture", <<>>)),
      background_image |-> Image(Field(e, "backgroundPicture", <<>>)),
      websites |-> SelectSeq(Field(e, "websites", <<>>), LAMBDA w : w.url # ""),
      creator_website |-> IF creator = <<>> THEN "" ELSE Trimmed(creator[1].website),
      topics |-> IF creator = <<>> THEN <<>>
                 ELSE Distinct(Each(HashtagName, creator[1].hashtags)),
      verified |-> verification # "null",
      flags |-> Field(e, "flags", {}),
      created_at |-> SelectSeq(<<Field(e, "created", 0)>>, LAMBDA t : t > 0)]

\* A profile whose sections are still empty.
ProfileOf(e, ref) ==
  LET base == BaseOf(e, ref)
  IN [f \in DOMAIN base \cup DOMAIN NoSections |->
        IF f \in DOMAIN NoSections THEN NoSections[f] ELSE base[f]]

\* Whether there is a profile in the document at all, as an error code.
ProfileError(doc) ==
  IF doc = Malformed THEN "upstream_parse_error"
  ELSE IF doc.elements = <<>> THEN "profile_not_found" ELSE "none"

ParseProfile(doc, ref) == ProfileOf(Head(doc.elements), ref)

ProfileURN(doc) == Text(Head(doc.elements), "entityUrn")
================================================================================
