--------------------------- MODULE WorksheetPreview ---------------------------
(***************************************************************************)
(* The picture of the worksheet beside the student's page: the source pane *)
(* of src/v2/WorkspaceShell.tsx, document/DocumentCrop.tsx that fetches    *)
(* and renders it, and get_page_context of the server.                     *)
(*                                                                         *)
(* The pane is composed with WorkspacePage: it reads the page on every     *)
(* render and is made anew when the address it fetches from changes.  The  *)
(* address names the question and whether a completed copy is wanted, not  *)
(* the export or the version the page is at; the server answers from the   *)
(* manifest of now.                                                        *)
(***************************************************************************)
EXTENDS WorkspacePage

VARIABLE crop  \* DocumentCrop: address, stage, and the source it draws

previewVars == <<vars, crop>>

-----------------------------------------------------------------------------
(* What the page asks for.                                                 *)

ShowsSourcePane(p)       == Loaded(p) /\ ~InSetup(p)
ShowsCompletedPreview(p) == p.at = "exportComplete" /\ p.result # 0

NoUrl == [q |-> 0, preview |-> FALSE]

ContextUrl(p) ==
  IF ShowsSourcePane(p) THEN [q |-> ActiveQuestion(p), preview |-> ShowsCompletedPreview(p)]
  ELSE NoUrl

-----------------------------------------------------------------------------
(* What the server answers.  The completed copy of version v is known by v, *)
(* the original worksheet by 0.                                            *)

Original == 0

\* Mutant of CompletedCopy: the last complete export, of whatever version.
LastCompletedCopy(m) == Max({v \in Exported : exports[v] = "complete"} \cup {Original})

CompletedCopy(m) == IF exports[m.version] = "complete" THEN m.version ELSE Original

GetPageContext(url) ==
  [q |-> url.q, source |-> IF url.preview THEN CompletedCopy(manifest) ELSE Original]

\* parseAuthorizedPageContext keeps the question and the source with its status,
\* which is what the caption says.
ParseContext(reply) ==
  [q |-> reply.q, source |-> reply.source,
   caption |-> IF reply.source = Original THEN "Original worksheet" ELSE "Confirmed answer preview"]

-----------------------------------------------------------------------------
(* DocumentCrop.                                                           *)

NoContext == [q |-> 0, source |-> Original, caption |-> "none"]

Attempt(url) == [url |-> url, at |-> IF url = NoUrl THEN "closed" ELSE "fetching", context |-> NoContext]

\* The attempt is keyed by its address: a render with another address makes a new
\* one, and what the old one awaited is aborted or dropped.
Render == crop' = IF ContextUrl(page') = crop.url THEN crop ELSE Attempt(ContextUrl(page'))

TakeContext ==
  /\ crop.at = "fetching"
  /\ crop' = [crop EXCEPT !.at = "rendering", !.context = ParseContext(GetPageContext(crop.url))]

\* The engine starts, the document is loaded from its address and drawn.
ShowImage == crop.at = "rendering" /\ crop' = [crop EXCEPT !.at = "shown"]

CropFails == crop.at \in {"fetching", "rendering"} /\ crop' = [crop EXCEPT !.at = "failed"]

\* "Try preview again"
TryAgain == crop.at = "failed" /\ crop' = Attempt(crop.url)

-----------------------------------------------------------------------------
(* The specification.                                                      *)

PreviewInit == Init /\ crop = Attempt(ContextUrl(InitialContext))

Crop == TakeContext \/ ShowImage \/ CropFails \/ TryAgain

PreviewNext == (Next /\ Render) \/ (Crop /\ UNCHANGED vars)

PreviewSpec == PreviewInit /\ [][PreviewNext]_previewVars

-----------------------------------------------------------------------------
(* Properties.                                                             *)

\* A completed copy shown beside the page is not older than the one offered for
\* download, and has in it every answer the page shows as added, although its
\* address names neither.
CopyHoldsAddedAnswers ==
  crop.at = "shown" /\ crop.context.source # Original =>
    /\ crop.context.source >= page.result
    /\ \A q \in Answered(page) :
         \E r \in manifest.receipts :
           r.version <= crop.context.source /\ MapAnswer(r.answer) = page.confirmed[q]
=============================================================================
