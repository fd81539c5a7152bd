SPECIFICATION Spec
CONSTANTS
  Kit = {k1}
  User = {u1, u2}
  Name = {n1}
  Email = {e1}
  Worker = {w1, w2}
  NoKit = NoKit
  MaxRows = 3
SYMMETRY Symmetry
CHECK_DEADLOCK FALSE
INVARIANTS SiteTypeOK  
PROPERTIES  SavedReviewsStay FavoritesFollowTheirKit
