---------------------------- MODULE SiteSettings ----------------------------
(***************************************************************************)
(* The settings of the site and the images uploaded for them, from the     *)
(* page of the administrators to the table and the upload directory:       *)
(* SiteSettingsPage.jsx and its context, site-settings.service.js with its *)
(* repository, and the chain of an upload (upload.middleware.js,           *)
(* validateUploadedFile.js, validateImageUpload.middleware.js,             *)
(* upload-storage.service.js, virus-scan.service.js).                      *)
(*                                                                         *)
(* An image is written to the public directory under a random name before  *)
(* it is looked at, and is removed when a check refuses it; the page gets  *)
(* its address only after the last check.  One text stands for the fields  *)
(* of the settings, one image for the four addresses of images.            *)
(***************************************************************************)
EXTENDS Naturals

CONSTANTS
  Pages,        \* open pages of administrators
  Images,       \* the random names of uploaded images
  Texts,        \* what the fields may say
  Default,      \* of them, what DEFAULT_SETTINGS says
  ScanEnabled,  \* uploadsConfig.virusScanEnabled
  None          \* no row, no image

VARIABLES
  row,          \* the row of site_settings, or None
  disk,         \* disk[i]: the file of image i, as the checks find it
  loaded,       \* loaded[p]: the context of page p holds stored settings
  form,         \* form[p]: what the page has in its fields
  call,         \* call[p]: the page's request about the settings
  upload        \* upload[p]: the page's upload

vars == <<row, disk, loaded, form, call, upload>>

-----------------------------------------------------------------------------
(* keyed: with the columns id and updated_at, which the service returns.   *)
Settings == [text: Texts, image: Images \cup {None}, keyed: BOOLEAN]

(* other: not an image of the declared type; infected: the scan refuses it. *)
Files == {"none", "clean", "infected", "other"}

Defaults(keyed) == [text |-> Default, image |-> None, keyed |-> keyed]

NoCall == [op |-> "none", at |-> "find", with |-> Defaults(FALSE), result |-> None]
Get == [NoCall EXCEPT !.op = "get"]
NoUpload == [at |-> "idle", image |-> None]

(* The provider loads the settings as soon as a page is opened.            *)
Init ==
  /\ row \in {None, Defaults(TRUE)}
  /\ disk = [i \in Images |-> "none"]
  /\ loaded = [p \in Pages |-> FALSE]
  /\ form = [p \in Pages |-> Defaults(FALSE)]
  /\ call = [p \in Pages |-> Get]
  /\ upload = [p \in Pages |-> NoUpload]

(* While it loads, the page shows no form.                                 *)
Visible(p) == call[p].op # "get"

Edit(p, text) ==
  /\ Visible(p)
  /\ form' = [form EXCEPT ![p].text = text]
  /\ UNCHANGED <<row, disk, loaded, call, upload>>

(* Bound: a page is not left while something of it is under way.           *)
Reload(p) ==
  /\ call[p].op = "none" /\ upload[p].at = "idle"
  /\ loaded' = [loaded EXCEPT ![p] = FALSE]
  /\ form' = [form EXCEPT ![p] = Defaults(FALSE)]
  /\ call' = [call EXCEPT ![p] = Get]
  /\ UNCHANGED <<row, disk, upload>>

(* updateSiteSettingsSchema is strict: keys it does not list are refused.  *)
Accepted(settings) == ~settings.keyed

Save(p) ==
  /\ call[p].op = "none"
  /\ call' = [call EXCEPT ![p] =
       [NoCall EXCEPT !.op = "put", !.with = form[p],
                      !.at = IF Accepted(form[p]) THEN "find" ELSE "answer"]]
  /\ UNCHANGED <<row, disk, loaded, form, upload>>

(* What getSiteSettings found is the answer, or is updated next.           *)
Found(p, settings) ==
  call' = IF call[p].op = "get"
          THEN [call EXCEPT ![p].at = "answer", ![p].result = settings]
          ELSE [call EXCEPT ![p].at = "update"]

Find(p) ==
  /\ call[p].op # "none" /\ call[p].at = "find"
  /\ IF row = None THEN call' = [call EXCEPT ![p].at = "create"] ELSE Found(p, row)
  /\ UNCHANGED <<row, disk, loaded, form, upload>>

(* The primary key lets one of several inserts through; who loses reads.   *)
Create(p) ==
  /\ call[p].at = "create"
  /\ row' = IF row = None THEN Defaults(TRUE) ELSE row
  /\ Found(p, row')
  /\ UNCHANGED <<disk, loaded, form, upload>>

(* The page sends every field, and every field is written.                 *)
Merged(payload) == [payload EXCEPT !.keyed = TRUE]

Update(p) ==
  /\ call[p].at = "update"
  /\ row' = Merged(call[p].with)
  /\ call' = [call EXCEPT ![p].at = "answer", ![p].result = row']
  /\ UNCHANGED <<disk, loaded, form, upload>>

(* Loaded settings replace the form; a save that succeeded loads again.    *)
Receive(p) ==
  /\ call[p].at = "answer" /\ call[p].result # None
  /\ IF call[p].op = "get"
     THEN /\ loaded' = [loaded EXCEPT ![p] = TRUE]
          /\ form' = [form EXCEPT ![p] = call[p].result]
          /\ call' = [call EXCEPT ![p] = NoCall]
     ELSE call' = [call EXCEPT ![p] = Get] /\ UNCHANGED <<loaded, form>>
  /\ UNCHANGED <<row, disk, upload>>

(* A load that fails falls back on the defaults, and so does the form      *)
(* unless they were shown already; a save that fails leaves the form.      *)
GiveUp(p) ==
  /\ call[p].op # "none"
  /\ IF call[p].op = "get"
     THEN /\ loaded' = [loaded EXCEPT ![p] = FALSE]
          /\ form' = [form EXCEPT ![p] = IF loaded[p] THEN Defaults(FALSE) ELSE @]
     ELSE UNCHANGED <<loaded, form>>
  /\ call' = [call EXCEPT ![p] = NoCall]
  /\ UNCHANGED <<row, disk, upload>>

-----------------------------------------------------------------------------
(* An upload.                                                              *)

At(p, stage) == upload' = [upload EXCEPT ![p].at = stage]

(* The declared type passes fileFilter; what the bytes are and what the    *)
(* scanner will say of them shows later.  Bound: one upload of a page at a *)
(* time.                                                                   *)
Choose(p, i, file) ==
  /\ Visible(p) /\ upload[p].at = "idle" /\ disk[i] = "none"
  /\ disk' = [disk EXCEPT ![i] = file]
  /\ upload' = [upload EXCEPT ![p] = [at |-> "written", image |-> i]]
  /\ UNCHANGED <<row, loaded, form, call>>

Refused(p) ==
  /\ disk' = [disk EXCEPT ![upload[p].image] = "none"]
  /\ upload' = [upload EXCEPT ![p] = NoUpload]

(* uploadedImageFileSchema: name, size and type of what multer has stored. *)
Validate(p) ==
  /\ upload[p].at = "written"
  /\ \/ At(p, "valid") /\ UNCHANGED disk
     \/ Refused(p)
  /\ UNCHANGED <<row, loaded, form, call>>

(* The first bytes are those of an image of the declared type.             *)
Inspect(p) ==
  /\ upload[p].at = "valid"
  /\ IF disk[upload[p].image] # "other" THEN At(p, "scan") /\ UNCHANGED disk ELSE Refused(p)
  /\ UNCHANGED <<row, loaded, form, call>>

(* Mutant: the scan's verdict is not waited for.                           *)
PassesUnseen(i) == TRUE

Passes(i) == ScanEnabled => disk[i] = "clean"

Scan(p) ==
  /\ upload[p].at = "scan"
  /\ IF Passes(upload[p].image) THEN At(p, "answer") /\ UNCHANGED disk ELSE Refused(p)
  /\ UNCHANGED <<row, loaded, form, call>>

(* The address goes into the form as it is by now.                         *)
Uploaded(p) ==
  /\ upload[p].at = "answer"
  /\ form' = [form EXCEPT ![p].image = upload[p].image]
  /\ upload' = [upload EXCEPT ![p] = NoUpload]
  /\ UNCHANGED <<row, disk, loaded, call>>

(* The process dies, the file cannot be removed, or the answer is lost:    *)
(* the file stays.                                                         *)
Abandon(p) ==
  /\ upload[p].at # "idle"
  /\ upload' = [upload EXCEPT ![p] = NoUpload]
  /\ UNCHANGED <<row, disk, loaded, form, call>>

(* What the public address of an image is answered with.                   *)
Servable(i) == disk[i] \in {"clean", "infected"}

Next ==
  \E p \in Pages :
    \/ \E text \in Texts : Edit(p, text)
    \/ Reload(p) \/ Save(p)
    \/ Find(p) \/ Create(p) \/ Update(p) \/ Receive(p) \/ GiveUp(p)
    \/ \E i \in Images, file \in Files \ {"none"} : Choose(p, i, file)
    \/ Validate(p) \/ Inspect(p) \/ Scan(p) \/ Uploaded(p) \/ Abandon(p)

Spec == Init /\ [][Next]_vars

-----------------------------------------------------------------------------
(* The types of the variables; the row is always one with its keys.        *)
TypeOK ==
  /\ row \in {None} \cup {s \in Settings : s.keyed}
  /\ disk \in [Images -> Files]
  /\ loaded \in [Pages -> BOOLEAN]
  /\ form \in [Pages -> Settings]
  /\ call \in [Pages -> [op: {"none", "get", "put"},
                         at: {"find", "create", "update", "answer"},
                         with: Settings, result: Settings \cup {None}]]
  /\ upload \in [Pages -> [at: {"idle", "written", "valid", "scan", "answer"},
                           image: Images \cup {None}]]

(* However uploads, saves and loads of several administrators overlap, get *)
(* lost or are cut off, an uploaded image that is in the stored settings,  *)
(* or in a form about to be saved, can be served, and has passed the scan. *)
StoredImagesAreServed ==
  \A i \in Images :
    (row # None /\ row.image = i) \/ (\E p \in Pages : form[p].image = i) =>
      Servable(i) /\ (ScanEnabled => disk[i] = "clean")

=============================================================================
