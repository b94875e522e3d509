------------------------------- MODULE MCRetrieval -------------------------------
(* Retrievals with constants for TLC.                                       *)
EXTENDS Retrieval

CONSTANTS r1, r2

\* Every pair of sections for one request, so that every decoder meets every
\* other; three sections for two slots; two requests that share the slots; and
\* more retries than the deadline has time for.
MCConfigs ==
  LET Config(wanted, retries, requests) ==
        [sections |-> wanted, maxRetries |-> retries, requests |-> requests]
  IN {Config({s, t}, 0, {r1}) : s, t \in SectionNames}
     \cup {Config({"experience", "education", "volunteer"}, 0, {r1}),
           Config({"experience", "education"}, 1, {r1}),
           Config({"skills"}, 0, {r1, r2}),
           Config({}, 5, {r1})}

Date2020 == <<[year |-> 2020, month |-> 1, day |-> 0]>>
NoYear == <<[year |-> 0, month |-> 5, day |-> 0]>>

\* An item every decoder can use, one that none can, and one whose fields
\* have the wrong types.
Item(urn, name) ==
  [urn |-> urn, typed |-> TRUE, object |->
    [title |-> name, name |-> name, schoolName |-> name, role |-> name,
     score |-> "text", companyName |-> "R&amp;D", companyUrn |-> "simple",
     schoolUrn |-> "compound", geoLocationName |-> "text", locationName |-> " ",
     dateRange |-> <<[start |-> Date2020, end |-> NoYear]>>, dateOn |-> NoYear]]
Blank(urn) ==
  [urn |-> urn, typed |-> TRUE, object |->
    [companyName |-> "&#32;", dateRange |-> <<[start |-> NoYear, end |-> NoYear]>>]]
Untyped(urn) == [Item(urn, "text") EXCEPT !.typed = FALSE]

\* The page lists them out of order, one twice, one that is missing; one item
\* is repeated with other contents.
MCSectionDocs ==
  {Malformed,
   [elements |-> <<"b">>, included |-> <<Blank("b"), Item("a", "text")>>],
   [elements |-> <<"c", "a", "z", "b", "", "d", "c">>,
    included |-> <<Item("a", "R&amp;D"), Blank("b"), Item("c", "text"), Item("c", " "),
                   Item("", "text"), Untyped("d")>>]}

Member ==
  [firstName |-> "R&amp;D", lastName |-> " ", summary |-> "", created |-> 0,
   primaryLocale |-> [language |-> "en", country |-> " "],
   supportedLocales |-> <<[language |-> "en"], [country |-> "US"], [language |-> "en", country |-> " "],
                          [language |-> "en", country |-> "US"]>>,
   creatorInfo |-> <<[website |-> " ", hashtags |-> <<[open |-> TRUE, name |-> "go"],
                      [open |-> FALSE, name |-> "x"], [open |-> TRUE, name |-> "go"]>>]>>,
   profilePicture |-> <<[root |-> "root", artifacts |->
      <<[width |-> 400, height |-> 400, segment |-> "l"], [width |-> 0, height |-> 0, segment |-> "n"],
        [width |-> 100, height |-> 100, segment |-> "s"]>>]>>,
   websites |-> <<[url |-> "", category |-> "a"], [url |-> "u", category |-> "b"]>>]

MCCoreDocs ==
  {Malformed, [elements |-> <<>>], [elements |-> <<Member>>],
   [elements |-> <<Member @@ ("entityUrn" :> "urn"), Member>>]}
================================================================================
