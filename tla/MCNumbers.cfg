SPECIFICATION Spec
CONSTANTS
 Widths <- MCWidths
 Programs <- MCPrograms
INVARIANTS CheckedHasType ComputesWhatIsMeant
