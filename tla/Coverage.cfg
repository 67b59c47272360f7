\* Two files, so that one row's file can go while another's is looked at; profiles of up to three
\* rows, so that 2 of 3 is rounded up to 66.7%.
SPECIFICATION Spec
CONSTANTS
  Source = {f, g}
  Outside = Outside
  Thresholds = {0, 500, 667, 1000}
  MaxRows = 3
INVARIANTS TypeOK DropsWholeFiles PassIsEarned
