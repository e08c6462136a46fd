\* A copy that is cut off leaves a cache of today with half the rows.
SPECIFICATION IMFSpec
CONSTANTS
  Published <- MCPublished
  MaxDays = 1
INVARIANTS
  FreshEveryMorning
