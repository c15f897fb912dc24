------------------------------ MODULE Reviews ------------------------------
(***************************************************************************)
(* What people attach to an arena and to themselves: reviews, from whose   *)
(* rows a trigger keeps the arena's rating, the photo gallery with its     *)
(* uploaded files, and the highlights on a player's card.                  *)
(*                                                                         *)
(* A statement on reviews fires the trigger, whose UPDATE of the arena     *)
(* aggregates over the rows it saw when it began and then waits for the    *)
(* arena's row; when the row has changed meanwhile, read committed looks   *)
(* at the row again but not at the aggregate.  The two halves are actions  *)
(* of their own.                                                           *)
(***************************************************************************)
EXTENDS Integers, FiniteSets, FiniteSetsExt

CONSTANTS
    Players, Owner,      \* signed-in users; Null is a visitor
    Ids,                 \* identifiers of rows and uploaded files
    Ratings,             \* the ratings players try
    Workers, Null

VARIABLES
    visits,      \* each player's latest booking at the arena
    reviews,     \* the committed reviews, by id
    rating,      \* review_count and the sum behind rating, in the arena's row
    req,         \* what each worker is doing
    photos,      \* the gallery: the file, or Null for a link, of each row
    files,       \* the files in the upload directory
    highlights   \* the clips on each player's card

vars == <<visits, reviews, rating, req, photos, files, highlights>>
reviewVars == <<visits, reviews, rating>>
mediaVars == <<photos, files, highlights>>

Idle == [op |-> "idle"]
Visitors == Players \cup {Owner, Null}
SignedIn(u) == u # Null
NoReviews == [i \in Ids |-> Null]

Rows(rs) == {i \in Ids : rs[i] # Null}
Aggregate(rs) == [count |-> Cardinality(Rows(rs)),
                  sum |-> MapThenSumSet(LAMBDA i : rs[i].rating, Rows(rs))]

Init ==
    /\ visits = [u \in Players |-> "none"]
    /\ reviews = NoReviews
    /\ rating = Aggregate(NoReviews)
    /\ req = [w \in Workers |-> Idle]
    /\ photos = NoReviews
    /\ files = {}
    /\ highlights = [u \in Players |-> {}]

To(w, r) == req' = [req EXCEPT ![w] = r]

-----------------------------------------------------------------------------
(* Reviews. *)

(* A confirmed booking counts from the end of its hour, before the sweep    *)
(* has made it completed, and whether it was paid or not.                   *)
HasPlayedAt(u) == visits[u] \in {"past", "completed"}
Validate(r) == r \in 1 .. 5

ReviewsByUser(u) == {i \in Rows(reviews) : reviews[i].user = u}
MyReviews(u) == [reviews |-> ReviewsByUser(u), canReview |-> HasPlayedAt(u)]

(* A review being written is not in its table yet, whoever looks.           *)
Writing(i) == \E w \in Workers : req[w].op = "sync" /\ req[w].new[i] # reviews[i]

PostReview(w, u, r) ==
    /\ SignedIn(u) /\ Validate(r)
    /\ u \in Players /\ HasPlayedAt(u)
    /\ To(w, [op |-> "post", user |-> u, rating |-> r])
    /\ UNCHANGED <<reviewVars, mediaVars>>

(* The statement, and the half of the trigger that reads the rows.          *)
SyncRating(w, i, row) ==
    /\ ~Writing(i)
    /\ To(w, [op |-> "sync", id |-> i, new |-> [reviews EXCEPT ![i] = row]])
    /\ UNCHANGED <<reviewVars, mediaVars>>

CreateReview(w) ==
    /\ req[w].op = "post"
    /\ \E i \in Ids \ Rows(reviews) :
           SyncRating(w, i, [user |-> req[w].user, rating |-> req[w].rating])

DeleteReview(w, u) ==
    /\ SignedIn(u)
    /\ \E i \in ReviewsByUser(u) : SyncRating(w, i, Null)

(* The arena's row is had, written, and the statement commits.              *)
WriteRating(w) ==
    /\ req[w].op = "sync"
    /\ reviews' = [reviews EXCEPT ![req[w].id] = req[w].new[req[w].id]]
    /\ rating' = Aggregate(req[w].new)
    /\ To(w, Idle)
    /\ UNCHANGED <<visits, mediaVars>>

handlePostReview(w, u) == \E r \in Ratings : PostReview(w, u, r)
handleDeleteReview(w, u) == DeleteReview(w, u)

(* Bookings, as far as reviews see them.                                    *)
Play(u) ==
    /\ \/ visits[u] = "none" /\ visits' = [visits EXCEPT ![u] = "past"]
       \/ visits[u] = "past" /\ \E v \in {"completed", "none"} : visits' = [visits EXCEPT ![u] = v]
    /\ UNCHANGED <<reviews, rating, req, mediaVars>>

-----------------------------------------------------------------------------
(* The gallery. *)

AddPhotoOwnerScoped(u, i, file) ==
    /\ u = Owner /\ photos[i] = Null
    /\ photos' = [photos EXCEPT ![i] = [file |-> file]]

DeletePhotoOwnerScoped(u, i) ==
    /\ u = Owner /\ photos[i] # Null
    /\ photos' = [photos EXCEPT ![i] = Null]

handleAddPhoto(u) ==
    /\ SignedIn(u) /\ \E i \in Ids : AddPhotoOwnerScoped(u, i, Null)
    /\ UNCHANGED <<reviewVars, req, files, highlights>>

(* Deleting a row leaves its file.                                          *)
handleDeletePhoto(u) ==
    /\ SignedIn(u) /\ \E i \in Ids : DeletePhotoOwnerScoped(u, i)
    /\ UNCHANGED <<reviewVars, req, files, highlights>>

(* The file is stored first, under a name nothing else has.                 *)
Save(w, u, f) ==
    /\ f \notin files /\ files' = files \cup {f}
    /\ To(w, [op |-> "upload", user |-> u, file |-> f])

Delete(f) == files' = files \ {f}

handleUploadPhoto(w, u) ==
    /\ SignedIn(u) /\ \E f \in Ids : Save(w, u, f)
    /\ UNCHANGED <<reviewVars, photos, highlights>>

(* Then the row; when that fails the file is taken away again.  It also     *)
(* fails when the client is gone and the answer to a committed insert with  *)
(* it.                                                                      *)
FinishUpload(w) ==
    /\ req[w].op = "upload"
    /\ LET f == req[w].file
           Added == \E i \in Ids : AddPhotoOwnerScoped(req[w].user, i, f)
       IN  \/ Added /\ (UNCHANGED files \/ Delete(f))
           \/ UNCHANGED photos /\ Delete(f)
    /\ To(w, Idle)
    /\ UNCHANGED <<reviewVars, highlights>>

-----------------------------------------------------------------------------
(* Highlights. *)

AddHighlight(u, h) == h \notin highlights[u] /\ highlights' = [highlights EXCEPT ![u] = @ \cup {h}]
DeleteHighlight(u, h) == h \in highlights[u] /\ highlights' = [highlights EXCEPT ![u] = @ \ {h}]

handleAddHighlight(u) ==
    /\ u \in Players /\ \E h \in Ids : AddHighlight(u, h)
    /\ UNCHANGED <<reviewVars, req, photos, files>>
handleDeleteHighlight(u) ==
    /\ u \in Players /\ \E h \in Ids : DeleteHighlight(u, h)
    /\ UNCHANGED <<reviewVars, req, photos, files>>

-----------------------------------------------------------------------------
Next ==
    \/ \E w \in Workers : req[w] = Idle /\ \E u \in Visitors :
           handlePostReview(w, u) \/ handleDeleteReview(w, u) \/ handleUploadPhoto(w, u)
    \/ \E w \in Workers : CreateReview(w) \/ WriteRating(w) \/ FinishUpload(w)
    \/ \E u \in Visitors :
           handleAddPhoto(u) \/ handleDeletePhoto(u) \/ handleAddHighlight(u) \/ handleDeleteHighlight(u)
    \/ \E u \in Players : Play(u)

Spec == Init /\ [][Next]_vars

-----------------------------------------------------------------------------
(* Once nothing is being written, the rating in the arena's row is that of  *)
(* all its reviews (migrations/0012: "it averages every review").           *)
RatingAveragesEveryReview ==
    (\A w \in Workers : req[w].op # "sync") => rating = Aggregate(reviews)
=============================================================================
