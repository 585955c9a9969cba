------------------------------- MODULE Profile -------------------------------
(***************************************************************************)
(* Profile edits: nickname and profile image of the users, and the objects *)
(* in S3 that the images point at.  The client uploads an image under a    *)
(* key of its own and names it in an edit.  An edit works on the copy of   *)
(* the user that authentication read before the transaction began: it      *)
(* checks the nickname, saves every column of the copy, then the image     *)
(* alone, and deletes the object that the copy named, all before the       *)
(* commit.                                                                 *)
(***************************************************************************)
EXTENDS Integers, FiniteSets

CONSTANTS Members,      \* users
          Edits,        \* request slots
          Nicknames,
          MaxUploads,   \* bound of the uploaded images
          MaxEdits      \* bound of the edits and choices of an avatar

\* There are users, and nicknames enough for all of them to have one of their own.
ASSUME UploadAssumption ==
    /\ MaxUploads \in Nat /\ MaxEdits \in Nat /\ Members # {}
    /\ \E f \in [Members -> Nicknames] : \A u, v \in Members : f[u] = f[v] => u = v

VARIABLES profiles,     \* per user: the committed row [nickname, image]
          objects,      \* the keys that exist in S3
          uploads,      \* how many keys were handed out
          edit,         \* per slot
          sent,         \* how many edits and avatars were sent
          unsent,       \* uploaded images that no edit has named yet
          used,         \* history: per user, the uploads that edits have put into the row since
                        \* the last avatar
          crossing,     \* history: users of whom two edits overlapped
          undone,       \* history: users of whom an edit failed after its delete
          undeleted     \* history: S3 refused a delete

profileVars == <<profiles, objects, uploads, edit, sent, unsent, used, crossing, undone, undeleted>>

NoImage == 0
TypeImage == -1         \* the image of a travel type: not an upload of a user
Images == TypeImage .. MaxUploads
NoNickname == "none"
IdleEdit == [at |-> "idle", member |-> CHOOSE u \in Members : TRUE, nickname |-> NoNickname,
             image |-> NoImage, nicknameThen |-> NoNickname, imageThen |-> NoImage]

ProfileInit ==
    /\ profiles = LET given == CHOOSE f \in [Members -> Nicknames] :
                                \A u, v \in Members : f[u] = f[v] => u = v
                  IN [u \in Members |-> [nickname |-> given[u], image |-> NoImage]]
    /\ objects = {}
    /\ uploads = 0
    /\ edit = [e \in Edits |-> IdleEdit]
    /\ sent = 0
    /\ unsent = {}
    /\ used = [u \in Members |-> {}]
    /\ crossing = {}
    /\ undone = {}
    /\ undeleted = FALSE

Uploaded == 1 .. uploads

\* PresignedUrlService.create_upload_urls and the client's PUT with that URL.
Upload ==
    /\ uploads < MaxUploads
    /\ uploads' = uploads + 1
    /\ objects' = objects \cup {uploads'}
    /\ unsent' = unsent \cup {uploads'}
    /\ UNCHANGED <<profiles, edit, sent, used, crossing, undone, undeleted>>

EditsOf(u) == {e \in Edits : edit[e].at # "idle" /\ edit[e].member = u}

\* The request arrives and is authenticated: the row as it is now.  A nickname,
\* a fresh image or the image that the row has already may be in it.
Authenticate(e, u) ==
    /\ edit[e].at = "idle"
    /\ sent < MaxEdits
    /\ sent' = sent + 1
    /\ \E n \in Nicknames \cup {NoNickname}, i \in unsent \cup {profiles[u].image} :
        /\ edit' = [edit EXCEPT ![e] =
                      [at |-> "asked", member |-> u, nickname |-> n, image |-> i,
                       nicknameThen |-> profiles[u].nickname,
                       imageThen |-> profiles[u].image]]
        /\ unsent' = unsent \ {i}
    /\ crossing' = IF EditsOf(u) = {} THEN crossing ELSE crossing \cup {u}
    /\ UNCHANGED <<profiles, objects, uploads, used, undone, undeleted>>

EditAt(e, at) ==
    edit' = [edit EXCEPT ![e] =
               [at |-> at, member |-> edit[e].member, nickname |-> edit[e].nickname,
                image |-> edit[e].image, nicknameThen |-> edit[e].nicknameThen,
                imageThen |-> edit[e].imageThen]]
Finish(e) == edit' = [edit EXCEPT ![e] = IdleEdit]

\* The unique index of the nickname.
Taken(n, u) == \E v \in Members \ {u} : profiles[v].nickname = n

\* NicknameService.check_available, and the serializer's own look at the table.
CheckNickname(e) ==
    /\ edit[e].at = "asked"
    /\ IF Taken(edit[e].nickname, edit[e].member)
       THEN Finish(e)
       ELSE EditAt(e, "checked")
    /\ UNCHANGED <<profiles, objects, uploads, sent, unsent, used, crossing, undone, undeleted>>

Nickname(e) == IF edit[e].nickname = NoNickname THEN edit[e].nicknameThen ELSE edit[e].nickname

\* Edits that have written and hold their row, and their nickname, until they commit.
Writers == {e \in Edits : edit[e].at \in {"saved", "deleted"}}

\* The first save of the copy: it waits for the row and for the nickname, and
\* fails on one that has been taken since the check.
SaveCopy(e) ==
    /\ edit[e].at = "checked"
    /\ \A f \in Writers : edit[f].member # edit[e].member /\ Nickname(f) # Nickname(e)
    /\ IF Taken(Nickname(e), edit[e].member) THEN Finish(e) ELSE EditAt(e, "saved")
    /\ UNCHANGED <<profiles, objects, uploads, sent, unsent, used, crossing, undone, undeleted>>

\* The delete as it would be without the comparison of the two images.
ReplacesAnything(e) == edit[e].imageThen \in Uploaded /\ edit[e].image # NoImage

\* An old upload is deleted when an edit names another image.
Replaces(e) == edit[e].imageThen \in Uploaded /\ edit[e].image \notin {NoImage, edit[e].imageThen}

\* ProfileImageService.set_profile_image_url: the second save, and the delete
\* in S3, which swallows a refusal (at most one fault).
SetImage(e) ==
    /\ edit[e].at = "saved"
    /\ \E deleted \in IF undeleted \/ undone # {} THEN {TRUE} ELSE BOOLEAN :
        /\ objects' = IF Replaces(e) /\ deleted THEN objects \ {edit[e].imageThen} ELSE objects
        /\ undeleted' = (undeleted \/ (Replaces(e) /\ ~deleted))
    /\ EditAt(e, "deleted")
    /\ UNCHANGED <<profiles, uploads, sent, unsent, used, crossing, undone>>

\* The row that an edit leaves: the columns of its copy, with what it names.
Edited(e) == [nickname |-> Nickname(e),
              image |-> IF edit[e].image = NoImage THEN edit[e].imageThen ELSE edit[e].image]

Commit(e) ==
    /\ edit[e].at = "deleted"
    /\ profiles' = [profiles EXCEPT ![edit[e].member] = Edited(e)]
    /\ used' = [used EXCEPT ![edit[e].member] = @ \cup ({Edited(e).image} \cap Uploaded)]
    /\ Finish(e)
    /\ UNCHANGED <<objects, uploads, sent, unsent, crossing, undone, undeleted>>

\* update_user_avatar of the quiz: the image of a travel type, in one statement
\* that waits for the row and deletes nothing.
ChooseAvatar(u) ==
    /\ \A e \in Writers : edit[e].member # u
    /\ sent < MaxEdits
    /\ sent' = sent + 1
    /\ profiles' = [profiles EXCEPT ![u] = [nickname |-> profiles[u].nickname,
                                          image |-> TypeImage]]
    /\ used' = [used EXCEPT ![u] = {}]
    /\ crossing' = IF EditsOf(u) = {} THEN crossing ELSE crossing \cup {u}
    /\ UNCHANGED <<objects, uploads, edit, unsent, undone, undeleted>>

\* A lost connection, or an error of the reply, undoes the transaction.  At most
\* one fault: such a failure after the delete, or a delete that S3 refuses.
UndoEdit(e) ==
    /\ edit[e].at \in {"checked", "saved", "deleted"}
    /\ edit[e].at = "deleted" => ~undeleted /\ undone = {}
    /\ undone' = IF edit[e].at = "deleted" THEN undone \cup {edit[e].member} ELSE undone
    /\ Finish(e)
    /\ UNCHANGED <<profiles, objects, uploads, sent, unsent, used, crossing, undeleted>>

ProfileNext ==
    \/ Upload
    \/ \E e \in Edits, u \in Members : Authenticate(e, u)
    \/ \E u \in Members : ChooseAvatar(u)
    \/ \E e \in Edits : \/ CheckNickname(e) \/ SaveCopy(e) \/ SetImage(e)
                        \/ Commit(e) \/ UndoEdit(e)

ProfileSpec == ProfileInit /\ [][ProfileNext]_profileVars

-----------------------------------------------------------------------------
\* Every variable keeps its type, and no two users have one nickname
\* (models.py:62), however their edits overlap.
ProfileTypeOK ==
    /\ profiles \in [Members -> [nickname : Nicknames, image : Images]]
    /\ \A u, v \in Members : profiles[u].nickname = profiles[v].nickname => u = v
    /\ uploads \in 0 .. MaxUploads /\ sent \in 0 .. MaxEdits
    /\ objects \cup unsent \subseteq 1 .. uploads
    /\ edit \in [Edits -> [at : {"idle", "asked", "checked", "saved", "deleted"},
                           member : Members, nickname : Nicknames \cup {NoNickname},
                           image : Images, nicknameThen : Nicknames \cup {NoNickname},
                           imageThen : Images]]
    /\ used \in [Members -> SUBSET (1 .. uploads)]
    /\ crossing \cup undone \subseteq Members
    /\ undeleted \in BOOLEAN

\* Between edits the image of a user exists in S3, unless two edits of that
\* user overlapped (the later one saves the image that the earlier one deleted)
\* or one failed after its delete: a delete in the transaction, from a copy
\* that was read before it (profile_service.py:57-64), promises no more.
ImageStored ==
    \A u \in Members \ (crossing \cup undone) :
        EditsOf(u) = {} => profiles[u].image \in objects \cup {NoImage, TypeImage}

\* Of the images that edits put into the row of a user, S3 keeps the present
\* one only, unless two edits of that user overlapped or S3 refused a delete;
\* an upload that an avatar of the quiz replaces stays behind.
NothingLeftOver ==
    \A u \in Members \ crossing :
        (EditsOf(u) = {} /\ ~undeleted) => used[u] \cap objects \subseteq {profiles[u].image}

\* Every image is accounted for: the one in a row exists, one that left its row does not.
ImagesAccounted == ImageStored /\ NothingLeftOver
=============================================================================
