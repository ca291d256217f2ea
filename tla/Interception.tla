---------------------------- MODULE Interception ----------------------------
(* Which answers to a navigation the extension takes as PDFs to capture          *)
(* (interception.ts): Chrome by declarative rules, whose downloads its listener  *)
(* marks, Firefox by one listener that decides at once.                          *)
EXTENDS Integers, Sequences, FiniteSets

\* An answer: what was asked, by what, of whom, and what its headers say of it. A
\* Content-Type names a media type of PDFs, one of any file, or another, in one
\* of the ways a value may be written; it is "absent" when there is none.
Methods == {"GET", "POST"}
Types == {"main_frame", "sub_frame", "object", "other"}
Families == {"pdf", "generic", "another"}
Writings == {"bare", "parameters", "spaced", "unparsed"}
ContentTypes == (Families \X Writings) \cup {<<"absent", "bare">>}

\* Where `.pdf` is in the Content-Disposition: at its end, before a quote, or
\* before something else.
Dispositions == SUBSET {"end", "double", "single", "inside"}

Answers == [method : Methods, type : Types, own : BOOLEAN, exempted : BOOLEAN,
            path : BOOLEAN, content : ContentTypes, disposition : Dispositions]

PdfFrameTypes == {"main_frame", "sub_frame"}

----------------------------------------------------------------------------
(* Chrome.                                                                    *)

\* The patterns of a family: the type alone, or with parameters after a `;`, with
\* or without a space before it. The last also match what no parser accepts.
MediaTypePatterns(family) == {family} \X {"bare", "parameters", "spaced", "unparsed"}

\* A bug it could have: an answer without a Content-Type is not generic.
GenericPresent(a) == a.content \in MediaTypePatterns("generic")

\* pdf.js's double negation: no Content-Type that is not generic.
GenericOrAbsent(a) == ~(a.content[1] # "absent" /\ a.content \notin MediaTypePatterns("generic"))

DispositionPatterns == {"end", "double", "single"}

\* The rules, the highest priority first; what is exempted in its tab comes before them.
PdfCaptureRules == <<
    [name |-> "exemption",   action |-> "allow"],
    [name |-> "bucket",      action |-> "allow"],
    [name |-> "type",        action |-> "download"],
    [name |-> "path",        action |-> "download"],
    [name |-> "disposition", action |-> "download"]>>

Condition(rule, a) ==
    /\ a.type \in PdfFrameTypes
    /\ rule.action = "download" => a.method = "GET"
    /\ CASE rule.name = "exemption"   -> a.exempted
         [] rule.name = "bucket"      -> a.own
         [] rule.name = "type"        -> a.content \in MediaTypePatterns("pdf")
         [] rule.name = "path"        -> a.path /\ GenericOrAbsent(a)
         [] rule.name = "disposition" -> a.disposition \cap DispositionPatterns # {} /\ GenericOrAbsent(a)

\* The first rule that holds decides.
ChromeDownloads(a) ==
    \E n \in DOMAIN PdfCaptureRules :
        /\ Condition(PdfCaptureRules[n], a)
        /\ \A m \in 1 .. n - 1 : ~Condition(PdfCaptureRules[m], a)
        /\ PdfCaptureRules[n].action = "download"

----------------------------------------------------------------------------
(* The same decision of the headers, in either browser's listener.            *)

\* The media type without its parameters; a value that does not parse stays as it is.
MediaType(a) == IF a.content[2] = "unparsed" THEN a.content ELSE <<a.content[1], "bare">>

PdfType(a) == MediaType(a) = <<"pdf", "bare">>
GenericOrAbsentType(a) == MediaType(a) \in {<<"absent", "bare">>, <<"generic", "bare">>}
PdfPath(a) == GenericOrAbsentType(a) /\ a.path
PdfDisposition(a) == GenericOrAbsentType(a) /\ a.disposition \cap {"double", "single", "end"} # {}

IsPdfResponse(a) == PdfType(a) \/ PdfPath(a) \/ PdfDisposition(a)

\* Firefox's listener keeps the answer for a capture page.
FirefoxTakes(a) ==
    /\ a.type \in PdfFrameTypes
    /\ a.method = "GET" /\ ~a.own /\ ~a.exempted
    /\ IsPdfResponse(a)

\* Chrome's listener marks it for its download; it hears `download` links too.
ChromeMarks(a) ==
    /\ a.type \in PdfFrameTypes \cup {"other"}
    /\ a.method = "GET" /\ IsPdfResponse(a)
    /\ ~a.own /\ ~a.exempted

----------------------------------------------------------------------------
(* Properties.                                                                *)

\* Both browsers capture the same navigations (interception.ts: "the same decision"),
\* and no navigation Chrome's rules turn into a download stays without the mark that
\* lets the bucket have it, but for the Content-Types no parser accepts.
BrowsersAgree ==
    \A a \in Answers :
        /\ a.content[2] # "unparsed" =>
              /\ a.type \in PdfFrameTypes => (ChromeDownloads(a) <=> FirefoxTakes(a))
              /\ ChromeDownloads(a) => ChromeMarks(a)
        /\ FirefoxTakes(a) => ChromeDownloads(a)
=============================================================================
