------------------------------- MODULE Review -------------------------------
(***************************************************************************)
(* BookingLifecycle together with src/src/modules/review: POST /reviews,   *)
(* DELETE /reviews/:id and PATCH /admin/reviews/:id/status, while bookings *)
(* are created, paid, cancelled and overridden.                            *)
(*                                                                         *)
(* A review is about a booking code.  It is accepted on what the booking's *)
(* row said at one moment; nothing ties the two tables together but that   *)
(* moment and the unique index on reviews.bookingCode.                     *)
(***************************************************************************)
EXTENDS BookingLifecycle

CONSTANT Post     \* requests of the review endpoints

VARIABLES
    reviews,      \* the rows of table reviews
    post          \* where each request of a review endpoint stands

revVars == <<row, lock, invoices, hold, mails, req, reviews, post>>

ReviewStatus == {"VISIBLE", "HIDDEN"}

\* by is the request that wrote the review and stands for its text and rating.
\* There is no user: CreateReviewDto has no userId, and the validation pipe
\* refuses what a DTO does not name.
ReviewRow == [bookingCode: Booking, by: Post, status: ReviewStatus]

PostPC == {"idle", "paid", "unreviewed", "found", "done", "rejected", "failed"}

PostEnded == {"done", "rejected", "failed"}

\* code: the booking a new review is about; review: the row findById returned;
\* status: the one a moderator asked for.
NoPost == [pc |-> "idle", code |-> None, review |-> None, status |-> None]

PostState == [pc: PostPC, code: Booking \cup {None}, review: ReviewRow \cup {None},
              status: ReviewStatus \cup {None}]

PostAt(p, pc) == post[p].pc = pc

Step(p, pc) == post' = [post EXCEPT ![p].pc = pc]

RevInit ==
    /\ Init
    /\ reviews = {}
    /\ post = [p \in Post |-> NoPost]

-----------------------------------------------------------------------------
(* POST /reviews *)

\* Slip: any booking may be reviewed.
BookedIsEnough(e) == TRUE

\* createReview: only a booking that has been paid.
Reviewable(e) == e.payment = "PAID"

\* findBookingByCode and the three checks; the guest may name the wrong hotel.
FindBooking(p, b) ==
    /\ PostAt(p, "idle")
    /\ \E sameHotel \in BOOLEAN :
           IF Found(b) /\ sameHotel /\ Reviewable(row[b])
           THEN post' = [post EXCEPT ![p].pc = "paid", ![p].code = b]
           ELSE Step(p, "rejected")
    /\ UNCHANGED reviews

Reviewed(b) == \E x \in reviews : x.bookingCode = b

\* findByBookingCode, which finds hidden reviews too.
FindReview(p) ==
    /\ PostAt(p, "paid")
    /\ Step(p, IF Reviewed(post[p].code) THEN "rejected" ELSE "unreviewed")
    /\ UNCHANGED reviews

\* Slip: the column is not unique.
NoIndex(b) == FALSE

\* @Index(['bookingCode'], { unique: true })
Duplicate(b) == Reviewed(b)

\* The insert, unless another request has reviewed the booking meanwhile.
InsertReview(p) ==
    LET new == [bookingCode |-> post[p].code, by |-> p, status |-> "VISIBLE"] IN
    /\ PostAt(p, "unreviewed")
    /\ IF Duplicate(post[p].code)
       THEN /\ Step(p, "failed")
            /\ UNCHANGED reviews
       ELSE /\ Step(p, "done")
            /\ reviews' = reviews \cup {new}

(* DELETE /reviews/:id *)

\* Found or not, it is refused: no review has a userId to compare with the
\* caller's, and the JWT guard sets no role.
DeleteReview(p) ==
    /\ PostAt(p, "idle")
    /\ Step(p, "rejected")
    /\ UNCHANGED reviews

(* PATCH /admin/reviews/:id/status *)

\* findById.  An id that does not exist is refused.
FindById(p, x, s) ==
    /\ PostAt(p, "idle")
    /\ post' = [post EXCEPT ![p].pc = "found", ![p].review = x, ![p].status = s]
    /\ UNCHANGED reviews

\* UPDATE reviews SET status WHERE id: the other columns stay as they are.
UpdateStatus(p) ==
    LET Target(x) == x.by = post[p].review.by IN
    /\ PostAt(p, "found")
    /\ reviews' = {IF Target(x) THEN [x EXCEPT !.status = post[p].status] ELSE x : x \in reviews}
    /\ Step(p, "done")

\* A statement throws.
PostFails(p) ==
    /\ post[p].pc \notin PostEnded \cup {"idle"}
    /\ Step(p, "failed")
    /\ UNCHANGED reviews

-----------------------------------------------------------------------------
PostNext(p) ==
    \/ \E b \in Booking : FindBooking(p, b)
    \/ FindReview(p)
    \/ InsertReview(p)
    \/ DeleteReview(p)
    \/ \E x \in reviews, s \in ReviewStatus : FindById(p, x, s)
    \/ UpdateStatus(p)
    \/ PostFails(p)

RevNext ==
    \/ Next /\ UNCHANGED <<reviews, post>>
    \/ \E p \in Post : PostNext(p) /\ UNCHANGED vars

RevSpec == RevInit /\ [][RevNext]_revVars

-----------------------------------------------------------------------------
(* Properties *)

\* Every reviewed booking was paid and has the invoice to show for it, however
\* the booking is cancelled, overridden or charged again between the check, the
\* look for another review and the insert (review.service.ts:42-54).
ReviewedWasPaid == \A x \in reviews : invoices[x.bookingCode] # {}

\* A booking has one review, hidden ones included, although each request looked
\* for another before it inserted its own (review.service.ts:46, review.entity.ts:17).
OneReviewPerBooking == \A x, y \in reviews : x.bookingCode = y.bookingCode => x = y

\* The inductive invariant: a request that has seen the booking PAID has seen an
\* invoice that stays.
RevInv ==
    /\ IndInv
    /\ reviews \subseteq ReviewRow
    /\ post \in [Post -> PostState]
    /\ \A p \in Post :
          /\ post[p].pc \in {"paid", "unreviewed"} =>
                post[p].code \in Booking /\ invoices[post[p].code] # {}
          /\ PostAt(p, "found") => post[p].status \in ReviewStatus
    /\ ReviewedWasPaid
    /\ OneReviewPerBooking
=============================================================================
