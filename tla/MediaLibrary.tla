---------------------------- MODULE MediaLibrary ----------------------------
(***************************************************************************)
(* Photos and albums of a user, with their cached lists:                    *)
(* src/photo/photo.service.ts and src/collection/collection.service.ts.     *)
(*                                                                          *)
(* A list is cached by whoever misses it and dropped after each write, by a *)
(* call nobody waits for.  The keys album:<id> are dropped but never set.   *)
(***************************************************************************)
EXTENDS Actors, FiniteSets, Naturals

CONSTANTS
    Items,   \* identities of Photo rows and of Album rows
    Titles   \* captions and titles

ASSUME MediaAssumption == None \notin Titles

VARIABLES
    shelf,   \* shelf[k]: the user's rows of kind k with their titles
    album,   \* album[i]: the albums photo i is in
    kept,    \* kept[k]: the cached list, None when there is none
    media,   \* media[r]: what request r is at
    overtaken    \* history: kinds whose list was cached by a reader a write had overtaken

mediaVars == <<shelf, album, kept, media, overtaken>>

Shelves == {"photos", "albums"}

NoRow == [i \in Items |-> None]

NoMedia == [step |-> "idle", kind |-> "photos", list |-> None]

MediaInit ==
    /\ shelf = [k \in Shelves |-> NoRow]
    /\ album = [i \in Items |-> {}]
    /\ kept = [k \in Shelves |-> None]
    /\ media = [r \in Requests |-> NoMedia]
    /\ overtaken = {}

-----------------------------------------------------------------------------
MediaAt(r, step) == media[r].step = step

Have(kind) == {i \in Items : shelf[kind][i] # None}

\* A write is answered; its call of delCache is still on the way.
Wrote(r, kind) == media' = [media EXCEPT ![r] = [NoMedia EXCEPT !.step = "drop", !.kind = kind]]

\* One photo, or several in one transaction, in albums that exist.
CreatePhotos(r, new, title, albums) ==
    /\ MediaAt(r, "idle")
    /\ new # {} /\ new \cap Have("photos") = {} /\ albums \subseteq Have("albums")
    /\ shelf' = [shelf EXCEPT !["photos"] = [i \in Items |-> IF i \in new THEN title ELSE @[i]]]
    /\ album' = [i \in Items |-> IF i \in new THEN albums ELSE album[i]]
    /\ Wrote(r, "photos")
    /\ UNCHANGED <<kept, overtaken>>

CreateAlbum(r, i, title) ==
    /\ MediaAt(r, "idle")
    /\ i \notin Have("albums")
    /\ shelf' = [shelf EXCEPT !["albums"][i] = title]
    /\ Wrote(r, "albums")
    /\ UNCHANGED <<album, kept, overtaken>>

\* updatePhoto and updateAlbum; without the row they fail.
Update(r, kind, i, title) ==
    /\ MediaAt(r, "idle")
    /\ i \in Have(kind)
    /\ shelf' = [shelf EXCEPT ![kind][i] = title]
    /\ Wrote(r, kind)
    /\ UNCHANGED <<album, kept, overtaken>>

\* Mutant: the list is not dropped.
DeletePhotosKeepingTheList(r, gone) ==
    /\ MediaAt(r, "idle")
    /\ gone # {} /\ gone \subseteq Have("photos")
    /\ shelf' = [shelf EXCEPT !["photos"] = [i \in Items |-> IF i \in gone THEN None ELSE @[i]]]
    /\ album' = [i \in Items |-> IF i \in gone THEN {} ELSE album[i]]
    /\ UNCHANGED <<kept, media, overtaken>>

\* One photo, or several in a transaction that fails when one is missing.
DeletePhotos(r, gone) ==
    /\ MediaAt(r, "idle")
    /\ gone # {} /\ gone \subseteq Have("photos")
    /\ shelf' = [shelf EXCEPT !["photos"] = [i \in Items |-> IF i \in gone THEN None ELSE @[i]]]
    /\ album' = [i \in Items |-> IF i \in gone THEN {} ELSE album[i]]
    /\ Wrote(r, "photos")
    /\ UNCHANGED <<kept, overtaken>>

DeleteAlbum(r, i) ==
    /\ MediaAt(r, "idle")
    /\ i \in Have("albums")
    /\ shelf' = [shelf EXCEPT !["albums"][i] = None]
    /\ album' = [j \in Items |-> album[j] \ {i}]
    /\ Wrote(r, "albums")
    /\ UNCHANGED <<kept, overtaken>>

DropList(r) ==
    /\ MediaAt(r, "drop")
    /\ kept' = [kept EXCEPT ![media[r].kind] = None]
    /\ overtaken' = overtaken \ {media[r].kind}
    /\ media' = [media EXCEPT ![r] = NoMedia]
    /\ UNCHANGED <<shelf, album>>

\* getPhotos and getAlbums: the cached list, or the rows, which are cached.
GetMissed(r, kind) ==
    /\ MediaAt(r, "idle")
    /\ kept[kind] = None
    /\ media' = [media EXCEPT ![r] = [step |-> "keep", kind |-> kind, list |-> shelf[kind]]]
    /\ UNCHANGED <<shelf, album, kept, overtaken>>

KeepList(r) ==
    /\ MediaAt(r, "keep")
    /\ LET kind == media[r].kind
       IN /\ kept' = [kept EXCEPT ![kind] = media[r].list]
          /\ overtaken' = IF media[r].list = shelf[kind] THEN overtaken \ {kind} ELSE overtaken \cup {kind}
    /\ media' = [media EXCEPT ![r] = NoMedia]
    /\ UNCHANGED <<shelf, album>>

ListExpires(kind) ==
    /\ kept[kind] # None
    /\ kept' = [kept EXCEPT ![kind] = None]
    /\ overtaken' = overtaken \ {kind}
    /\ UNCHANGED <<shelf, album, media>>

MediaNext ==
    \/ \E r \in Requests :
        \/ \E some \in SUBSET Items, title \in Titles, albums \in SUBSET Items :
             CreatePhotos(r, some, title, albums)
        \/ \E i \in Items, title \in Titles :
             CreateAlbum(r, i, title) \/ \E kind \in Shelves : Update(r, kind, i, title)
        \/ \E some \in SUBSET Items : DeletePhotos(r, some)
        \/ \E i \in Items : DeleteAlbum(r, i)
        \/ DropList(r)
        \/ \E kind \in Shelves : GetMissed(r, kind)
        \/ KeepList(r)
    \/ \E kind \in Shelves : ListExpires(kind)

-----------------------------------------------------------------------------
(* The types of the rows, lists and requests. *)
MediaTypeOK ==
    LET Lists == [Items -> Titles \cup {None}]
    IN /\ shelf \in [Shelves -> Lists]
       /\ album \in [Items -> SUBSET Items]
       /\ kept \in [Shelves -> Lists \cup {None}]
       /\ media \in [Requests -> [step : {"idle", "drop", "keep"}, kind : Shelves, list : Lists \cup {None}]]
       /\ overtaken \subseteq Shelves

(* A cached list is the list of the rows, but while a writer has yet to drop *)
(* it, or after a reader cached what a write had overtaken.  A photo is only *)
(* in albums that exist.                                                     *)
ListsAreFresh ==
    /\ \A kind \in Shelves :
         kept[kind] # None /\ kind \notin overtaken =>
           kept[kind] = shelf[kind] \/ \E r \in Requests : media[r].step = "drop" /\ media[r].kind = kind
    /\ \A i \in Items : album[i] \subseteq Have("albums") /\ (album[i] # {} => i \in Have("photos"))
=============================================================================
