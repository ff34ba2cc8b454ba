SPECIFICATION Spec
CONSTANTS NumFrames = 3
          K = 2
          MaxAccesses = 6
PROPERTIES ImplementsReplacer VictimHasLargestDistance
