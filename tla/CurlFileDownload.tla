--------------------------- MODULE CurlFileDownload ---------------------------
(***************************************************************************)
(* CurlFileDownload: one file at a time is downloaded into a temporary     *)
(* file.  A transfer that fails for a reason that may pass is tried again  *)
(* and resumes where the cursor of the file is; one that ended short goes  *)
(* back a little first, as some of its bytes may be missing.  Positions    *)
(* are counted in chunks.  libcurl and the server are external: a transfer *)
(* writes what arrives, reports progress now and then, may lose chunks     *)
(* anywhere and may end in any way at any time; it only ends well when it  *)
(* got as many chunks as the server announced.                             *)
(***************************************************************************)
EXTENDS Integers

CONSTANTS
    Urls,
    Size,         \* chunks of every file
    Rewind,       \* FIVE_MIB, in chunks
    Wrap,         \* 2^32, in chunks: resume_from is a UINT32
    MaxRetries,   \* config.max_retries
    Truncates     \* config.max_file_size < 0

VARIABLES
    status,     \* the status of the download
    handle,     \* "none", "added" to the dispatcher, or "orphan"
    pending,    \* pending_retry
    retries,    \* retry_count
    url,
    open,       \* fd is open
    file,       \* the chunks of the temporary file
    cursor,     \* the offset of fd
    received,   \* bytes_received
    resume,     \* resume_from
    now,        \* (libcurl) the chunks received in this transfer
    counted,    \* (libcurl) those reported, the last dlnow
    sent,       \* (libcurl) the next chunk the server sends
    lost,       \* (libcurl) where the first chunk this transfer lost belongs, or -1
    fresh,      \* (history) the last download was accepted and is still in the file
    missed,     \* (history) this download resumed past a loss
    stuck       \* (history) a retry could not be set up

transfer == <<resume, now, counted, sent, lost>>
content == <<open, file, cursor>>
history == <<fresh, missed, stuck>>
vars == <<status, handle, pending, retries, url, content, received, transfer, history>>

Hole == <<"none", 0>>
Blank == [k \in 0..(Size - 1) |-> Hole]

TypeOK ==
    /\ status \in {"idle", "in_progress", "success", "failed"}
    /\ handle \in {"none", "added", "orphan"}
    /\ {pending, open, fresh, missed, stuck} \subseteq BOOLEAN
    /\ retries \in 0..MaxRetries
    /\ file \in [0..(Size - 1) -> (Urls \X (0..(Size - 1))) \cup {Hole}]
    /\ {cursor, now, counted, sent, received} \subseteq 0..Size
    /\ resume \in 0..(Wrap - 1)
    /\ lost \in -1..(Size - 1)

\* init; a lazy temporary file is opened by the first download.
Init ==
    /\ status = "idle" /\ handle = "none" /\ pending = FALSE /\ retries = 0
    /\ url \in Urls
    /\ open \in BOOLEAN /\ file = Blank /\ cursor = 0
    /\ received = 0 /\ resume = 0 /\ now = 0 /\ counted = 0 /\ sent = 0 /\ lost = -1
    /\ fresh = FALSE /\ missed = FALSE /\ stuck = FALSE

-----------------------------------------------------------------------------
\* setup_and_add_handle: the transfer resumes at position at, or the set-up fails
\* before or after there is a handle.
SetUp(at) ==
    /\ handle' = "added"
    /\ resume' = at % Wrap
    /\ now' = 0 /\ counted' = 0
    /\ sent' = at
    /\ lost' = -1

SetUpFails ==
    /\ handle' \in {handle, "orphan"}
    /\ UNCHANGED transfer

Bug_Start ==
    /\ open' = TRUE
    /\ UNCHANGED cursor
    /\ file' = IF Truncates THEN Blank ELSE file
    /\ received' = 0

\* The file as download_file prepares it.
Start ==
    /\ open' = TRUE
    /\ cursor' = 0
    /\ file' = IF Truncates THEN Blank ELSE file
    /\ received' = 0

DownloadFile(u) ==
    /\ status # "in_progress"
    /\ Start
    /\ url' = u
    /\ \/ SetUp(cursor') /\ status' = "in_progress" /\ fresh' = TRUE
       \/ SetUpFails /\ UNCHANGED status /\ fresh' = FALSE
    /\ missed' = FALSE
    /\ UNCHANGED <<pending, retries, stuck>>

\* dispatch with a retry that is due: what its set-up answers is not looked at.
Dispatch ==
    /\ pending
    /\ retries' = retries + 1
    /\ pending' = FALSE
    /\ \/ SetUp(cursor) /\ UNCHANGED stuck
       \/ SetUpFails /\ stuck' = TRUE
    /\ UNCHANGED <<status, url, content, received, fresh, missed>>

\* write_cb
Write ==
    /\ handle = "added" /\ sent < Size
    /\ file' = [file EXCEPT ![cursor] = <<url, sent>>]
    /\ cursor' = cursor + 1
    /\ now' = now + 1
    /\ sent' = sent + 1
    /\ UNCHANGED <<status, handle, pending, retries, url, open, received, resume, counted, lost, history>>

\* progress_cb, at any time of the transfer.
Progress ==
    /\ handle = "added"
    /\ counted' = now
    /\ received' = resume + now
    /\ UNCHANGED <<status, handle, pending, retries, url, content, resume, now, sent, lost, history>>

Lose ==
    /\ handle = "added" /\ sent < Size
    /\ sent' = sent + 1
    /\ lost' = IF lost = -1 THEN cursor ELSE lost
    /\ UNCHANGED <<status, handle, pending, retries, url, content, received, resume, now, counted, history>>

-----------------------------------------------------------------------------
Retry ==
    IF retries < MaxRetries
      THEN pending' = TRUE /\ UNCHANGED status
      ELSE status' = "failed" /\ UNCHANGED pending

Bug_StepBack == 0

\* How far a partial file is rewound.
StepBack == IF received < Rewind THEN received ELSE Rewind

\* What was written after the loss is more than the code goes back for: it resumes
\* without going back, or more than Rewind, or than was reported, was written since.
OutOfReach(rewinds) ==
    lost # -1 /\ (rewinds => cursor - lost > Rewind \/ cursor - lost > counted)

\* complete_cb
Complete ==
    /\ handle = "added"
    /\ handle' = "none"
    /\ \/ /\ sent = Size /\ lost = -1                        \* CURLE_OK
          /\ status' = "success"
          /\ UNCHANGED <<pending, cursor, received, missed>>
       \/ /\ Retry                                          \* may pass
          /\ missed' = (missed \/ OutOfReach(FALSE))
          /\ UNCHANGED <<cursor, received>>
       \/ /\ sent < Size \/ lost # -1                        \* CURLE_PARTIAL_FILE
          /\ cursor' = cursor - StepBack
          /\ received' = cursor'
          /\ Retry
          /\ missed' = (missed \/ OutOfReach(TRUE))
       \/ /\ status' = "failed"                              \* any other
          /\ UNCHANGED <<pending, cursor, received, missed>>
    /\ UNCHANGED <<retries, url, open, file, transfer, fresh, stuck>>

CancelDownload ==
    /\ pending' = FALSE
    /\ handle' = "none"
    /\ status' = "idle"
    /\ stuck' = FALSE
    /\ UNCHANGED <<retries, url, content, received, transfer, fresh, missed>>

\* move_temp_file_to: the file is renamed and a new one is opened, or cannot be.
MoveTempFile ==
    /\ status # "in_progress"
    /\ open' \in BOOLEAN
    /\ file' = Blank /\ cursor' = 0
    /\ fresh' = FALSE
    /\ UNCHANGED <<status, handle, pending, retries, url, received, transfer, missed, stuck>>

Next ==
    \/ \E u \in Urls : DownloadFile(u)
    \/ Dispatch \/ Write \/ Progress \/ Lose \/ Complete
    \/ CancelDownload \/ MoveTempFile

Spec == Init /\ [][Next]_vars

-----------------------------------------------------------------------------
(***************************************************************************)
(* A download that reports success holds the file of its url, each chunk   *)
(* in its place, over losses, retries, resumed transfers and cancelled     *)
(* downloads, however far progress lags behind what is written - as long   *)
(* as each loss was followed by a partial file within what complete_cb     *)
(* goes back.  The three ways past that bound leave a hole in the file,    *)
(* for all that complete_cb rewinds "so that we can recover from receiving *)
(* any corrupted packets".                                                 *)
(***************************************************************************)
SuccessIsTheFile ==
    status = "success" /\ fresh /\ ~missed => \A k \in 0..(Size - 1) : file[k] = <<url, k>>

(***************************************************************************)
(* A download in progress is with libcurl or waits to be retried, unless   *)
(* the set-up of a retry failed: then only cancel_download ends it.        *)
(***************************************************************************)
ProgressHasACause ==
    status = "in_progress" => (handle = "added" \/ pending \/ stuck)
=============================================================================
